---- MODULE Spec2Model ----
(***************************************************************************)
(* todocalmenu: a task store of one .ics file per task, driven through a   *)
(* launcher prompt.  The model follows src/todocalmenu.go: the program is   *)
(* one blocking call chain, so its state is the task collection, the       *)
(* directory, the clock and the prompt the program is blocked on; one      *)
(* action is one answer the launcher gives at that prompt together with    *)
(* everything the code does until it blocks on the next prompt.            *)
(***************************************************************************)
EXTENDS Integers, Sequences, FiniteSets, TLC

(***************************************************************************)
(* Bounds of the model.                                                    *)
(***************************************************************************)
\* number of prompts the launcher answers in one run of the program
MaxSteps == 4
\* resolution of the clock: ticks of time.Now() per whole second
TicksPerSec == 2
\* offset of the local zone east of UTC, in hours
LocalOffsetHours == 1

(***************************************************************************)
(* Time.  An instant is a number of ticks; the zero time.Time is 0.        *)
(***************************************************************************)
ZeroTime == 0
SecsPerMin == 60
MinsPerHour == 60
HoursPerDay == 24
MinTicks == SecsPerMin * TicksPerSec
HourTicks == MinsPerHour * MinTicks
DayTicks == HoursPerDay * HourTicks
LocalOffset == LocalOffsetHours * HourTicks

IsZero(t) == t = ZeroTime

\* time.Date(y, m, d, hour, min, 0, 0, time.Local): the instant of a local
\* wall-clock reading
Date(day, hour, min) == day * DayTicks + hour * HourTicks + min * MinTicks - LocalOffset

\* the local calendar day, hour and minute of an instant
LocalDay(t) == (t + LocalOffset) \div DayTicks
LocalHour(t) == ((t + LocalOffset) % DayTicks) \div HourTicks
LocalMinute(t) == ((t + LocalOffset) % HourTicks) \div MinTicks

\* a text yyyymmddThhmmss as the wall-clock reading it spells
Reading(day, hour, min, sec) == [day |-> day, hour |-> hour, min |-> min, sec |-> sec]

\* t.Format("20060102T150405Z") without the conversion to UTC: the reading
\* of the local clock
FormatLocal(t) ==
    Reading(LocalDay(t), LocalHour(t), LocalMinute(t),
            ((t + LocalOffset) % MinTicks) \div TicksPerSec)

\* t.UTC().Format("20060102T150405Z"): the reading of the UTC clock, to the
\* whole second
FormatUTC(t) ==
    Reading(t \div DayTicks, (t % DayTicks) \div HourTicks, (t % HourTicks) \div MinTicks,
            (t % MinTicks) \div TicksPerSec)

\* time.Parse("20060102T150405Z", value): the instant at which the UTC clock
\* reads the text, an error when a field is out of range
ParseUTC(r) ==
    IF r.hour < HoursPerDay /\ r.min < MinsPerHour /\ r.sec < SecsPerMin
    THEN [t |-> r.day * DayTicks + r.hour * HourTicks + r.min * MinTicks
                  + r.sec * TicksPerSec,
          err |-> FALSE]
    ELSE [t |-> ZeroTime, err |-> TRUE]

\* the forms a stored date-time value has; a value is [form, v] where v is
\* what the text spells: a reading for the form with the suffix Z, a day for
\* the form of 8 characters, the reading of the local clock in ticks for the
\* form of 15 characters
Absent == [form |-> "absent", v |-> 0]
ZForm(t) == [form |-> "Z", v |-> FormatUTC(t)]
LocalForm(t) == [form |-> "datetime", v |-> t + LocalOffset]

\* parseDateTime
parseDateTime(value) ==
    CASE value.form = "Z" ->
           (IF ParseUTC(value.v).err THEN ZeroTime ELSE ParseUTC(value.v).t)
      [] value.form = "date" -> Date(value.v, 0, 0)
      [] value.form = "datetime" -> value.v - LocalOffset
      [] OTHER -> ZeroTime

\* t.Format("2006-01-02") / formatDate: the local day, "" rendered as -1
NoText == -1
formatDate(t) == IF IsZero(t) THEN NoText ELSE LocalDay(t)
\* formatTime: hh:mm, as minutes since local midnight
formatTime(t) == IF IsZero(t) THEN NoText ELSE LocalHour(t) * MinsPerHour + LocalMinute(t)


(***************************************************************************)
(* Tasks, stored records and the directory.                                *)
(***************************************************************************)
\* the UID "" and the statuses the program writes
EmptyUID == 0
NeedsAction == "NEEDS-ACTION"
Completed == "COMPLETED"

\* type Todo struct; NoTodo is its zero value
NoTodo ==
    [UID |-> EmptyUID, Summary |-> "", Description |-> "", Categories |-> <<>>,
     Status |-> "", Created |-> ZeroTime, LastMod |-> ZeroTime, DueDate |-> ZeroTime,
     Priority |-> 0, StartDate |-> ZeroTime, Modified |-> FALSE]

\* a VTODO component: the properties the program manages, and XPROP for
\* every property it does not.  A text property that is absent is "", an
\* absent PRIORITY is <<>>, an absent CATEGORIES is <<>>.
NewVTodo(uid) ==
    [UID |-> uid, SUMMARY |-> "", DESCRIPTION |-> "", STATUS |-> "",
     CREATED |-> Absent, LASTMOD |-> Absent, DUE |-> Absent, PRIORITY |-> <<>>,
     CATEGORIES |-> <<>>, DTSTART |-> Absent, XPROP |-> ""]

\* a component of another type, which the program passes over
VEvent(uid) == [UID |-> uid, comp |-> "VEVENT"]
\* the type assertion component.(*ics.VTodo)
IsVTodo(c) == "comp" \notin DOMAIN c

\* a file <name>.ics is a calendar of components, or text the codec cannot
\* decode (or a file that cannot be read); a file with another extension is
\* a TextFile, whatever it holds
Calendar(comps) == [kind |-> "cal", comps |-> comps]
Corrupt == [kind |-> "corrupt", comps |-> <<>>]
TextFile(comps) == [kind |-> "txt", comps |-> comps]

\* filepath.Ext(file.Name())
Ext(f) == IF f.kind = "txt" THEN ".txt" ELSE ".ics"
\* loadICSFile: the calendar, or an error
loadICSFile(f) ==
    IF f.kind = "corrupt" THEN [comps |-> <<>>, err |-> TRUE]
    ELSE [comps |-> f.comps, err |-> FALSE]

\* the elements of a finite set of numbers in ascending order (os.ReadDir
\* returns the entries sorted by file name)
RECURSIVE SortedSeq(_)
SortedSeq(S) ==
    IF S = {} THEN <<>>
    ELSE LET x == CHOOSE y \in S : \A z \in S : y <= z
         IN <<x>> \o SortedSeq(S \ {x})

\* convertVTodoToTodo
convertVTodoToTodo(vtodo) ==
    [UID |-> vtodo.UID,
     Summary |-> vtodo.SUMMARY,
     Description |-> vtodo.DESCRIPTION,
     Status |-> IF vtodo.STATUS = "" THEN NeedsAction ELSE vtodo.STATUS,
     Created |-> IF vtodo.CREATED = Absent THEN ZeroTime ELSE parseDateTime(vtodo.CREATED),
     LastMod |-> IF vtodo.LASTMOD = Absent THEN ZeroTime ELSE parseDateTime(vtodo.LASTMOD),
     DueDate |-> IF vtodo.DUE = Absent THEN ZeroTime ELSE parseDateTime(vtodo.DUE),
     Priority |-> IF vtodo.PRIORITY = <<>> THEN 0 ELSE vtodo.PRIORITY[1],
     Categories |-> vtodo.CATEGORIES,
     StartDate |-> IF vtodo.DTSTART = Absent THEN ZeroTime ELSE parseDateTime(vtodo.DTSTART),
     Modified |-> FALSE]

\* the tasks of one calendar, in component order: one for every component
\* that is a VTODO
RECURSIVE TodosOf(_)
TodosOf(comps) ==
    IF comps = <<>> THEN <<>>
    ELSE (IF IsVTodo(Head(comps)) THEN <<convertVTodoToTodo(Head(comps))>> ELSE <<>>)
           \o TodosOf(Tail(comps))

\* the loop of loadTodos without the test of the extension
RECURSIVE loadFromAnyExtension(_, _)
loadFromAnyExtension(names, dir) ==
    IF names = <<>> THEN <<>>
    ELSE LET f == dir[Head(names)]
             cal == [comps |-> f.comps, err |-> f.kind = "corrupt"]
         IN (IF cal.err THEN <<>> ELSE TodosOf(cal.comps))
              \o loadFromAnyExtension(Tail(names), dir)

\* the loop of loadTodos over the directory entries: a file with another
\* extension and a file that does not load are passed over
RECURSIVE loadFrom(_, _)
loadFrom(names, dir) ==
    IF names = <<>> THEN <<>>
    ELSE LET f == dir[Head(names)]
             cal == loadICSFile(f)
         IN (IF Ext(f) # ".ics" THEN <<>>
             ELSE IF cal.err THEN <<>>
             ELSE TodosOf(cal.comps)) \o loadFrom(Tail(names), dir)

\* loadTodos: os.ReadDir fails (~readable) and loadTodos returns its only
\* error, or it returns the tasks of the files in directory order
loadTodos(dir, readable) ==
    IF ~readable THEN [todos |-> <<>>, err |-> TRUE]
    ELSE [todos |-> loadFrom(SortedSeq(DOMAIN dir), dir), err |-> FALSE]

(***************************************************************************)
(* saveTodos.                                                              *)
(***************************************************************************)
\* strings.Join(todo.Categories, ",") as the stored list: a join that is ""
\* removes the property
JoinCategories(cats) == IF Len(cats) > 0 /\ cats # <<"">> THEN cats ELSE <<>>

\* the block with a CREATED that is set from the task every time
UpdateVTodoSetsCreated(vtodo, t) ==
    [vtodo EXCEPT
       !.SUMMARY = t.Summary,
       !.DESCRIPTION = t.Description,
       !.STATUS = t.Status,
       !.LASTMOD = ZForm(t.LastMod),
       !.DTSTART = IF ~IsZero(t.StartDate) THEN ZForm(t.StartDate) ELSE Absent,
       !.DUE = IF ~IsZero(t.DueDate) THEN ZForm(t.DueDate) ELSE Absent,
       !.PRIORITY = IF t.Priority > 0 THEN <<t.Priority>> ELSE <<>>,
       !.CATEGORIES = JoinCategories(t.Categories),
       !.CREATED = ZForm(t.Created)]

\* the block "Update only the fields we manage" of saveTodos, with
\* setPropertyIfNotEmpty and removeProperty
UpdateVTodo(vtodo, t) ==
    [vtodo EXCEPT
       !.SUMMARY = t.Summary,
       !.DESCRIPTION = t.Description,
       !.STATUS = t.Status,
       !.LASTMOD = ZForm(t.LastMod),
       !.DTSTART = IF ~IsZero(t.StartDate) THEN ZForm(t.StartDate) ELSE Absent,
       !.DUE = IF ~IsZero(t.DueDate) THEN ZForm(t.DueDate) ELSE Absent,
       !.PRIORITY = IF t.Priority > 0 THEN <<t.Priority>> ELSE <<>>,
       !.CATEGORIES = JoinCategories(t.Categories),
       !.CREATED = IF vtodo.CREATED = Absent THEN ZForm(t.Created) ELSE vtodo.CREATED]

\* the position of the first component with the given UID, 0 if there is none
FindVTodo(comps, uid) ==
    LET found == {i \in 1..Len(comps) : IsVTodo(comps[i]) /\ comps[i].UID = uid}
    IN IF found # {} THEN CHOOSE i \in found : \A j \in found : i <= j ELSE 0

\* the calendar with a new component added whether or not the task has one
SavedCalendarAddsTodo(dir, t) ==
    LET comps == IF t.UID \in DOMAIN dir THEN dir[t.UID].comps ELSE <<>>
    IN Calendar(Append(comps, UpdateVTodo(NewVTodo(t.UID), t)))

\* the calendar saveTodos serializes for one dirty task
SavedCalendar(dir, t) ==
    LET comps == IF t.UID \in DOMAIN dir THEN dir[t.UID].comps ELSE <<>>
        i == FindVTodo(comps, t.UID)
    IN IF i = 0
       THEN Calendar(Append(comps, UpdateVTodo(NewVTodo(t.UID), t)))
       ELSE Calendar([comps EXCEPT ![i] = UpdateVTodo(comps[i], t)])

\* the failures the file system can answer a save with: none, os.Create
\* fails at the i-th task, or SerializeTo fails there after the file was
\* truncated
NoFail == [at |-> 0, how |-> "none"]

\* "if !todo.Modified { continue }", with the variant that writes every task
skipsAlways(t) == FALSE
skips(t) == ~t.Modified

\* "todo.Modified = false" after the write, with the variant that leaves the
\* flag set
markSavedKeepsFlag(t) == t
markSaved(t) == [t EXCEPT !.Modified = FALSE]

\* saveTodos from position i on: the collection, the directory and the
\* error it returns
RECURSIVE saveFrom(_, _, _, _)
saveFrom(i, todos, dir, fail) ==
    IF i > Len(todos) THEN [todos |-> todos, dir |-> dir, err |-> FALSE]
    ELSE LET t == todos[i] IN
      IF skips(t) THEN saveFrom(i + 1, todos, dir, fail)
      ELSE IF t.UID \in DOMAIN dir /\ dir[t.UID].kind # "cal"
        THEN [todos |-> todos, dir |-> dir, err |-> TRUE]
      ELSE IF fail.at = i /\ fail.how = "create"
        THEN [todos |-> todos, dir |-> dir, err |-> TRUE]
      ELSE IF fail.at = i /\ fail.how = "serialize"
        THEN [todos |-> todos, dir |-> (t.UID :> Corrupt) @@ dir, err |-> TRUE]
      ELSE saveFrom(i + 1, [todos EXCEPT ![i] = markSaved(t)],
                    (t.UID :> SavedCalendar(dir, t)) @@ dir, fail)

saveTodos(todos, dir, fail) == saveFrom(1, todos, dir, fail)

(***************************************************************************)
(* createMenu.                                                             *)
(***************************************************************************)
\* the comparator with priorities compared as plain numbers, 0 first
lessPlainPriority(a, b) ==
    IF ~IsZero(a.DueDate) /\ IsZero(b.DueDate) THEN TRUE
    ELSE IF IsZero(a.DueDate) /\ ~IsZero(b.DueDate) THEN FALSE
    ELSE IF ~IsZero(a.DueDate) /\ ~IsZero(b.DueDate) THEN a.DueDate < b.DueDate
    ELSE IF a.Priority # b.Priority THEN a.Priority < b.Priority
    ELSE a.Created > b.Created

\* the comparator with "not before" in place of "after" in its last rule
lessNotOlder(a, b) ==
    IF ~IsZero(a.DueDate) /\ IsZero(b.DueDate) THEN TRUE
    ELSE IF IsZero(a.DueDate) /\ ~IsZero(b.DueDate) THEN FALSE
    ELSE IF ~IsZero(a.DueDate) /\ ~IsZero(b.DueDate) THEN a.DueDate < b.DueDate
    ELSE IF a.Priority # b.Priority
      THEN (IF a.Priority = 0 THEN FALSE
            ELSE IF b.Priority = 0 THEN TRUE
            ELSE a.Priority < b.Priority)
    ELSE a.Created >= b.Created

\* the comparator passed to sort.Slice
less(a, b) ==
    IF ~IsZero(a.DueDate) /\ IsZero(b.DueDate) THEN TRUE
    ELSE IF IsZero(a.DueDate) /\ ~IsZero(b.DueDate) THEN FALSE
    ELSE IF ~IsZero(a.DueDate) /\ ~IsZero(b.DueDate) THEN a.DueDate < b.DueDate
    ELSE IF a.Priority # b.Priority
      THEN (IF a.Priority = 0 THEN FALSE
            ELSE IF b.Priority = 0 THEN TRUE
            ELSE a.Priority < b.Priority)
    ELSE a.Created > b.Created

\* sort.Slice is not stable: it leaves the collection in some order in which
\* no task is less than one before it
IsSorted(s) == \A i, j \in 1..Len(s) : i < j => ~less(s[j], s[i])

\* a sort that hands the tasks back with their Modified flags cleared
SortSliceClearsModified(s) ==
    {r \in {[i \in 1..Len(s) |-> [s[p[i]] EXCEPT !.Modified = FALSE]] :
              p \in Permutations(1..Len(s))} : IsSorted(r)}

SortSlice(s) ==
    {r \in {[i \in 1..Len(s) |-> s[p[i]]] : p \in Permutations(1..Len(s))} : IsSorted(r)}

\* the filter with the threshold applied in both modes
ShownThresholdAnyMode(t, showCompleted, threshold, clock) ==
    /\ (t.Status = Completed) = showCompleted
    /\ ~(threshold /\ ~IsZero(t.StartDate) /\ t.StartDate > clock)

\* the filter of the rendering loop
Shown(t, showCompleted, threshold, clock) ==
    /\ (t.Status = Completed) = showCompleted
    /\ ~(threshold /\ ~showCompleted /\ ~IsZero(t.StartDate) /\ t.StartDate > clock)

\* the line a task renders as: priority column, created column, summary,
\* categories and due column
Line(t, hideCreated) ==
    [priority |-> IF t.Priority > 0 THEN t.Priority ELSE 0,
     created |-> IF hideCreated THEN NoText ELSE LocalDay(t.Created),
     summary |-> t.Summary,
     categories |-> t.Categories,
     due |-> IF ~IsZero(t.DueDate) THEN LocalDay(t.DueDate) ELSE NoText]

\* the lookup map with each line mapped to its position among the rendered
\* lines instead of its position in the collection
MenuMapRenderedPosition(s, showCompleted, fl, clock) ==
    LET shown == {i \in 1..Len(s) : Shown(s[i], showCompleted, fl.threshold, clock)}
        lines == {Line(s[i], fl.hideCreatedDate) : i \in shown}
    IN [l \in lines |->
          Cardinality({j \in shown :
                         \E i \in shown : /\ Line(s[i], fl.hideCreatedDate) = l
                                           /\ j <= i})]

\* the lookup map that keeps the first position that rendered each line
MenuMapFirstWins(s, showCompleted, fl, clock) ==
    LET shown == {i \in 1..Len(s) : Shown(s[i], showCompleted, fl.threshold, clock)}
        lines == {Line(s[i], fl.hideCreatedDate) : i \in shown}
    IN [l \in lines |->
          CHOOSE i \in shown :
            /\ Line(s[i], fl.hideCreatedDate) = l
            /\ \A j \in shown : Line(s[j], fl.hideCreatedDate) = l => i <= j]

\* the lookup map m of createMenu over the sorted collection: the last
\* position that rendered each line
MenuMap(s, showCompleted, fl, clock) ==
    LET shown == {i \in 1..Len(s) : Shown(s[i], showCompleted, fl.threshold, clock)}
        lines == {Line(s[i], fl.hideCreatedDate) : i \in shown}
    IN [l \in lines |->
          CHOOSE i \in shown :
            /\ Line(s[i], fl.hideCreatedDate) = l
            /\ \A j \in shown : Line(s[j], fl.hideCreatedDate) = l => j <= i]

\* the lines the rendering loop writes to displayList from position i on,
\* one per task that passes the filter, in the order of the collection
RECURSIVE DisplayFrom(_, _, _, _, _)
DisplayFrom(i, s, showCompleted, fl, clock) ==
    IF i > Len(s) THEN <<>>
    ELSE (IF Shown(s[i], showCompleted, fl.threshold, clock)
          THEN <<Line(s[i], fl.hideCreatedDate)>> ELSE <<>>)
           \o DisplayFrom(i + 1, s, showCompleted, fl, clock)

\* the options createMenu writes before the tasks
Header(showCompleted) ==
    IF showCompleted THEN <<"Delete All Completed">>
    ELSE <<"Add Item", "View Completed Items">>

\* what createMenu returns for the sorted collection s: displayList, as its
\* options (header) and its task lines (list), and the lookup map m
createMenu(s, showCompleted, fl, clock) ==
    [header |-> Header(showCompleted),
     list |-> DisplayFrom(1, s, showCompleted, fl, clock),
     m |-> MenuMap(s, showCompleted, fl, clock)]

\* the menu before createMenu was ever called
NoMenu == [header |-> <<>>, list |-> <<>>, m |-> <<>>]

(***************************************************************************)
(* The texts the launcher answers with.                                    *)
(***************************************************************************)
\* a text of characters for strconv.Atoi: a digit is its value, the sign
\* "-" is Minus, any other character is NonDigit
NonDigit == 10
Minus == 11
RECURSIVE DigitsValue(_)
DigitsValue(txt) ==
    IF txt = <<>> THEN 0 ELSE DigitsValue(SubSeq(txt, 1, Len(txt) - 1)) * 10 + txt[Len(txt)]

Atoi(txt) ==
    LET neg == txt # <<>> /\ txt[1] = Minus
        digits == IF neg THEN Tail(txt) ELSE txt
    IN IF digits = <<>> \/ \E i \in 1..Len(digits) : digits[i] >= NonDigit
       THEN [n |-> 0, err |-> TRUE]
       ELSE [n |-> IF neg THEN 0 - DigitsValue(digits) ELSE DigitsValue(digits),
             err |-> FALSE]

\* strings.TrimSpace and strings.ToLower on the texts of the model
TrimSpace(txt) == IF txt = " w" THEN "w" ELSE IF txt = " " THEN "" ELSE txt
ToLower(txt) == IF txt = "Y" THEN "y" ELSE txt

\* the trim loop and the single-empty-entry rule of the Categories case
RECURSIVE TrimAll(_)
TrimAll(pieces) ==
    IF pieces = <<>> THEN <<>> ELSE <<TrimSpace(Head(pieces))>> \o TrimAll(Tail(pieces))

NormalizeCategories(pieces) ==
    LET cats == TrimAll(pieces)
    IN IF Len(cats) = 1 /\ cats[1] = "" THEN <<>> ELSE cats

\* a run of the launcher as cmd.Run() and the two buffers report it: err is
\* the text of the error ("nil" for none), stdout and stderr are the texts
\* written, as sequences of characters
NoError == "nil"
LauncherRun(err, stdout, stderr) == [err |-> err, stdout |-> stdout, stderr |-> stderr]

\* strings.TrimRight(s, "\n")
RECURSIVE TrimRight(_)
TrimRight(txt) ==
    IF txt # <<>> /\ txt[Len(txt)] = "\n" THEN TrimRight(SubSeq(txt, 1, Len(txt) - 1))
    ELSE txt

\* what display does with a run: log.Fatal, or return (result, e)
Fatal == [fatal |-> TRUE, result |-> <<>>, e |-> NoError]
Returns(result, e) == [fatal |-> FALSE, result |-> result, e |-> e]

\* display that looks at the exit status before the diagnostics
displayByStatusFirst(run) ==
    IF run.err # NoError
    THEN IF run.err = "exit status 1" THEN Returns(<<>>, "escape")
         ELSE Fatal
    ELSE Returns(TrimRight(run.stdout), NoError)

\* display, from cmd.Run() on
display(run) ==
    IF run.err # NoError
    THEN IF run.stderr # <<>> THEN Fatal
         ELSE IF run.err = "exit status 1" THEN Returns(<<>>, "escape")
         ELSE Fatal
    ELSE Returns(TrimRight(run.stdout), NoError)

\* the runs of the launcher: it exits with status 0, 1 or 2 or is killed,
\* having written any of the texts, or it cannot be started
LauncherRuns ==
    {LauncherRun(err, out, diag) :
       err \in {NoError, "exit status 1", "exit status 2", "signal: killed"},
       out \in {<<>>, <<"x">>, <<"x", "\n">>, <<"x", "\n", "\n">>, <<"\n", "x", "\n">>},
       diag \in {<<>>, <<"e">>}}
      \cup {LauncherRun("exec: not found", <<>>, <<>>)}

\* display: the launcher answers a prompt with one of the texts, or is
\* cancelled, and display returns the escape error with the empty text
Display(texts, empty) ==
    {[e |-> TRUE, text |-> empty]} \cup {[e |-> FALSE, text |-> x] : x \in texts}

\* the day the program is run on, and the texts offered at each prompt
Today == 3
StartNow == Date(Today, 8, 0)
EndNow == StartNow + MaxSteps

TitleTexts == {"", "b"}
DescriptionTexts == {"", "d"}
PriorityTexts == {<<0>>, <<5>>, <<1, 0>>, <<Minus, 1>>, <<NonDigit>>}
\* strings.Split(text, ","): a text is given by its comma-separated pieces
CategoryTexts == {<<"">>, <<" w">>, <<"w", "h">>}
\* a date text: empty, yyyy-mm-dd of a day, or malformed
DateText(kind, day) == [kind |-> kind, day |-> day]
DateTexts == {DateText("empty", 0), DateText("date", Today + 1), DateText("bad", 0)}
\* a time text: empty, hh:mm, hhmm, or malformed
TimeText(kind, hour, min) == [kind |-> kind, hour |-> hour, min |-> min]
TimeTexts ==
    {TimeText("empty", 0, 0), TimeText("colon", 9, 30), TimeText("plain", 9, 30),
     TimeText("colon", 25, 0)}
ConfirmTexts == {"y", "Y", "n"}
\* the option "<Enter new category>"
EnterNew == <<"<Enter new category>">>

(***************************************************************************)
(* The state of the program.                                               *)
(*   pc            the prompt main is blocked on, or where it ended         *)
(*   ret           the caller of the last editItem                          *)
(*   todoList      todoList.Todos                                           *)
(*   sel           the position in todoList of the task editItem was given, *)
(*                 0 when that task is not (or no longer) in the collection *)
(*   todo          the task editItem was given while it is not in the       *)
(*                 collection (a new task of addItem, or one deleteTodo     *)
(*                 took out)                                                *)
(*   originalTodo  the copy editItem made on entry                          *)
(*   files         the directory: file <uid>.ics for every uid in DOMAIN    *)
(*   now           time.Now()                                               *)
(*   flags         the command line: -threshold and -hide-created-date      *)
(*   last          what the last answer did: the handler, its outcome, and  *)
(*                 whether it changed the task of the session; for a step   *)
(*                 that asked for confirmation, the answer as well          *)
(*   menu          displayList and m of the last createMenu                 *)
(***************************************************************************)
VARIABLES pc, ret, todoList, sel, todo, originalTodo, files, now, flags, last, menu

vars == <<pc, ret, todoList, sel, todo, originalTodo, files, now, flags, last, menu>>

\* the task behind the pointer editItem holds
CurTodo == IF sel > 0 THEN todoList[sel] ELSE todo

Outcome(op, res, chg) == [op |-> op, res |-> res, chg |-> chg]

\* the directories the program is started on: file 1 holds an open task,
\* file 2, when present, a completed one
Stored(uid, summary, status, due, created) ==
    [NewVTodo(uid) EXCEPT !.SUMMARY = summary, !.STATUS = status, !.DUE = due,
                          !.CREATED = created, !.LASTMOD = created, !.XPROP = "x"]

InitDirs ==
    {d1 @@ d2 :
       d1 \in {(1 :> Calendar(<<Stored(1, "a", "", due, ZForm(StartNow - DayTicks))>>)) :
                 due \in {Absent, ZForm(Date(Today, 0, 0))}},
       d2 \in {<<>>,
               (2 :> Calendar(<<Stored(2, "c", Completed, Absent, ZForm(StartNow - HourTicks))>>))}}

Init ==
    /\ pc = "start"
    /\ ret = "none"
    /\ todoList = <<>>
    /\ sel = 0
    /\ todo = NoTodo
    /\ originalTodo = NoTodo
    /\ files \in InitDirs
    /\ now = StartNow
    /\ flags \in {[threshold |-> th, hideCreatedDate |-> FALSE] : th \in BOOLEAN}
    /\ last = Outcome("none", "none", FALSE)
    /\ menu = NoMenu

\* the launcher answers one prompt: time passes, and the handler reads
\* time.Now() as Now
Now == now + 1

Step(op, res, chg) ==
    /\ now < EndNow
    /\ now' = Now
    /\ last' = Outcome(op, res, chg)

(***************************************************************************)
(* main: load, the loop over the active menu, the final save.              *)
(***************************************************************************)
\* loadTodos at the start of main; its error ends the program
Load ==
    /\ pc = "start"
    /\ \E readable \in BOOLEAN :
         LET r == loadTodos(files, readable)
         IN /\ todoList' = r.todos
            /\ pc' = IF r.err THEN "fatal" ELSE "main"
            /\ last' = Outcome("loadTodos",
                               IF r.err THEN "error reading directory" ELSE "ok", FALSE)
    /\ UNCHANGED <<ret, sel, todo, originalTodo, files, now, flags, menu>>

\* editItem is entered for the task at position i of the sorted collection
EnterEdit(sorted, i, from) ==
    /\ todoList' = sorted
    /\ sel' = i
    /\ todo' = NoTodo
    /\ originalTodo' = sorted[i]
    /\ pc' = "editItem"
    /\ ret' = from

\* the position Todos[m[out]] reads: the zero value of a missing key is the
\* first position
Lookup(m, out) == IF out \in DOMAIN m THEN m[out] ELSE 1
FreeText == [Line(NoTodo, TRUE) EXCEPT !.summary = "zzz"]

\* createMenu(todoList, false), then "Add Item" is selected: addItem builds
\* the new task and asks for its title
MainAddItem ==
    /\ pc = "main"
    /\ \E sorted \in SortSlice(todoList) :
         /\ todoList' = sorted
         /\ menu' = createMenu(sorted, FALSE, flags, Now)
    /\ todo' = [NoTodo EXCEPT !.UID = Now, !.Created = Now, !.LastMod = Now,
                              !.Status = NeedsAction]
    /\ pc' = "addItem"
    /\ Step("main", "Add Item", FALSE)
    /\ UNCHANGED <<ret, sel, originalTodo, files, flags>>

\* "View Completed Items" is selected
MainViewCompleted ==
    /\ pc = "main"
    /\ \E sorted \in SortSlice(todoList) :
         /\ todoList' = sorted
         /\ menu' = createMenu(sorted, FALSE, flags, Now)
    /\ pc' = "viewCompleted"
    /\ Step("main", "View Completed Items", FALSE)
    /\ UNCHANGED <<ret, sel, todo, originalTodo, files, flags>>

\* any other non-empty text is selected: a rendered line, or free text
MainEdit ==
    /\ pc = "main"
    /\ \E sorted \in SortSlice(todoList) :
         LET m == createMenu(sorted, FALSE, flags, Now).m
         IN \E out \in DOMAIN m \cup {FreeText} :
              /\ menu' = createMenu(sorted, FALSE, flags, Now)
              /\ IF Lookup(m, out) \in 1..Len(sorted)
                 THEN /\ EnterEdit(sorted, Lookup(m, out), "main")
                      /\ Step("main", "edit", out \notin DOMAIN m)
                 ELSE /\ todoList' = sorted
                      /\ pc' = "panic"
                      /\ Step("main", "index out of range", FALSE)
                      /\ UNCHANGED <<ret, sel, todo, originalTodo>>
    /\ UNCHANGED <<files, flags>>

\* the top-level prompt is cancelled or answered with nothing: the loop
\* ends and saveTodos runs
MainExit ==
    /\ pc = "main"
    /\ \E sorted \in SortSlice(todoList),
          fail \in {NoFail} \cup {[at |-> i, how |-> h] :
                                   i \in 1..Len(todoList), h \in {"create", "serialize"}} :
         LET r == saveTodos(sorted, files, fail)
         IN /\ menu' = createMenu(sorted, FALSE, flags, Now)
            /\ todoList' = r.todos
            /\ files' = r.dir
            /\ pc' = IF r.err THEN "fatal" ELSE "done"
            /\ Step("saveTodos", IF r.err THEN "error" ELSE "ok", FALSE)
    /\ UNCHANGED <<ret, sel, todo, originalTodo, flags>>

(***************************************************************************)
(* addItem and the ways editItem returns.                                  *)
(***************************************************************************)
\* the title prompt of addItem: cancelled or empty, addItem returns; with a
\* title, editItem is entered for the new task
\* addItem without the test of the title
addItemReturnsOnEscapeOnly(a) == a.e

\* addItem returns at once: "if e != nil { return }", and the body of
\* "if todo.Summary != \"\"" is skipped for an empty title
addItemReturns(a) == a.e \/ a.text = ""

TitleOutcome(a) == IF a.e THEN "cancelled" ELSE IF a.text = "" THEN "empty" ELSE "ok"

AddItemTitle ==
    /\ pc = "addItem"
    /\ \E a \in Display({"", "a"}, "") :
         IF addItemReturns(a)
         THEN /\ pc' = "main"
              /\ todo' = NoTodo
              /\ Step("addItem", TitleOutcome(a), FALSE)
              /\ UNCHANGED <<ret, originalTodo>>
         ELSE /\ todo' = [todo EXCEPT !.Summary = a.text]
              /\ originalTodo' = todo'
              /\ pc' = "editItem"
              /\ ret' = "addItem"
              /\ Step("addItem", TitleOutcome(a), FALSE)
    /\ UNCHANGED <<todoList, sel, files, flags, menu>>

\* "if todo.Summary != \"\" && todo.Modified" of addItem, with the variant
\* that does not look at Modified
addItemAppendsUnmodified(t) == t.Summary # ""
addItemAppends(t) == t.Summary # "" /\ t.Modified

\* editItem returns with the collection list and its task as t: addItem
\* appends the task when it has a summary and is Modified; the other callers
\* go round their loop
Return(list, t) ==
    /\ todoList' = IF ret = "addItem" /\ addItemAppends(t)
                   THEN Append(list, [t EXCEPT !.LastMod = Now])
                   ELSE list
    /\ pc' = IF ret = "viewCompleted" THEN "viewCompleted" ELSE "main"
    /\ ret' = ret
    /\ sel' = 0
    /\ todo' = NoTodo
    /\ originalTodo' = NoTodo

\* the collection with the task of the session replaced by t
WithCur(t) == IF sel > 0 THEN [todoList EXCEPT ![sel] = t] ELSE todoList

\* "Save item" that writes the task to its file at once
EditSaveWritesThrough ==
    /\ pc = "editItem"
    /\ LET t == [CurTodo EXCEPT !.Modified = TRUE, !.LastMod = Now]
       IN /\ Return(WithCur(t), t)
          /\ files' = (t.UID :> SavedCalendar(files, t)) @@ files
          /\ Step("editItem", "saved", t # CurTodo)
    /\ UNCHANGED <<flags, menu>>

\* "Save item" that stamps the task and leaves the Modified flag to the
\* field edits
EditSaveLeavesFlag ==
    /\ pc = "editItem"
    /\ LET t == [CurTodo EXCEPT !.LastMod = Now]
       IN /\ Return(WithCur(t), t)
          /\ Step("editItem", "saved", t # CurTodo)
    /\ UNCHANGED <<files, flags, menu>>

\* "Save item"
EditSave ==
    /\ pc = "editItem"
    /\ LET t == [CurTodo EXCEPT !.Modified = TRUE, !.LastMod = Now]
       IN /\ Return(WithCur(t), t)
          /\ Step("editItem", "saved", t # CurTodo)
    /\ UNCHANGED <<files, flags, menu>>

\* the revert that leaves the Modified flag as the session set it
RevertKeepsModified(t, original) ==
    IF original.UID = EmptyUID THEN t ELSE [original EXCEPT !.Modified = t.Modified]

\* the task editItem leaves behind when the outer prompt is cancelled: a
\* task with the empty UID is taken for a new one and left as it is, any
\* other is set back to the copy made on entry
Revert(t, original) ==
    LET isNew == original.UID = EmptyUID
    IN IF isNew THEN t ELSE original

\* the outer prompt is cancelled
EditCancel ==
    /\ pc = "editItem"
    /\ LET t == Revert(CurTodo, originalTodo)
       IN /\ Return(WithCur(t), t)
          /\ Step("editItem", "cancelled", t # CurTodo)
    /\ UNCHANGED <<files, flags, menu>>

\* a handler of the edit loop leaves the task as t and the loop goes on
Edited(t, op, res) ==
    /\ pc = "editItem"
    /\ todoList' = WithCur(t)
    /\ todo' = IF sel > 0 THEN todo ELSE t
    /\ Step(op, res, t # CurTodo)
    /\ UNCHANGED <<pc, ret, sel, originalTodo, files, flags, menu>>

(***************************************************************************)
(* The handlers of the edit loop.  A line of the edit menu is selected and *)
(* its sub-prompt answers with the escape error (e) or with a text.  The    *)
(* outcome "rejected" is that of an input the handler answers with a        *)
(* second prompt that says what is wrong (display("", "Priority must be a   *)
(* number between 0 and 9"), display("", "Bad date format. Should be        *)
(* yyyy-mm-dd.")); "dropped" is that of an input the handler does not take  *)
(* and shows no prompt for.                                                 *)
(***************************************************************************)
EditTitle ==
    \E tn \in Display(TitleTexts, "") :
      IF tn.e THEN Edited(CurTodo, "Title", "cancelled")
      ELSE Edited([CurTodo EXCEPT !.Summary = tn.text, !.Modified = TRUE], "Title", "ok")

\* a Priority case that takes every number
validPriorityAnyNumber(pn) == ~pn.err

\* "err == nil && pn >= 0 && pn <= 9"
validPriority(pn) == ~pn.err /\ pn.n >= 0 /\ pn.n <= 9

EditPriority ==
    \E p \in Display(PriorityTexts, <<>>) :
      IF p.e THEN Edited(CurTodo, "Priority", "cancelled")
      ELSE LET pn == Atoi(p.text)
           IN IF validPriority(pn)
              THEN Edited([CurTodo EXCEPT !.Priority = pn.n, !.Modified = TRUE],
                          "Priority", "ok")
              ELSE Edited(CurTodo, "Priority", "rejected")

\* getExistingCategories, as the set of its entries
getExistingCategories(list) ==
    UNION {{list[i].Categories[k] : k \in 1..Len(list[i].Categories)} : i \in 1..Len(list)}

\* the Categories case: the first prompt answers with an existing category,
\* with typed text, or with "<Enter new category>" (enterNew), whose own
\* prompt answers newCats and has its error discarded
EditCategories ==
    \E cats \in Display(CategoryTexts \cup {EnterNew}
                          \cup {<<c>> : c \in getExistingCategories(todoList)}, <<"">>) :
      IF cats.e THEN Edited(CurTodo, "Categories", "cancelled")
      ELSE IF cats.text = EnterNew
        THEN \E newCats \in Display(CategoryTexts, <<"">>) :
               Edited([CurTodo EXCEPT !.Categories = NormalizeCategories(newCats.text),
                                      !.Modified = TRUE],
                      "Categories", IF newCats.e THEN "cancelled new" ELSE "ok")
      ELSE Edited([CurTodo EXCEPT !.Categories = NormalizeCategories(cats.text),
                                  !.Modified = TRUE],
                  "Categories", "ok")

\* time.ParseInLocation("2006-01-02", d, time.Local)
ParseDate(d) ==
    IF d.kind = "date" THEN [t |-> Date(d.day, 0, 0), err |-> FALSE]
    ELSE [t |-> ZeroTime, err |-> TRUE]

EditDueDate ==
    \E d \in Display(DateTexts, DateText("empty", 0)) :
      IF d.e THEN Edited(CurTodo, "Due date", "cancelled")
      ELSE IF d.text.kind = "empty"
        THEN Edited([CurTodo EXCEPT !.DueDate = ZeroTime], "Due date", "cleared")
      ELSE LET td == ParseDate(d.text)
           IN IF td.err THEN Edited(CurTodo, "Due date", "rejected")
              ELSE Edited([CurTodo EXCEPT !.DueDate = td.t, !.Modified = TRUE],
                          "Due date", "ok")

\* updateStartDate that takes the parsed date as it is, whatever the task has
updateStartDateDropsTime(t, dateStr) ==
    IF dateStr.kind = "empty" THEN [t EXCEPT !.StartDate = ZeroTime]
    ELSE LET date == ParseDate(dateStr)
         IN IF date.err THEN t ELSE [t EXCEPT !.StartDate = date.t, !.Modified = TRUE]

updateStartDate(t, dateStr) ==
    IF dateStr.kind = "empty" THEN [t EXCEPT !.StartDate = ZeroTime]
    ELSE LET date == ParseDate(dateStr)
         IN IF date.err THEN t
            ELSE [t EXCEPT
                    !.StartDate =
                       IF ~IsZero(t.StartDate)
                       THEN Date(LocalDay(date.t), LocalHour(t.StartDate),
                                 LocalMinute(t.StartDate))
                       ELSE date.t,
                    !.Modified = TRUE]

\* the Start date case: updateStartDate shows no prompt of its own, so a
\* text that does not parse is dropped without a word
EditStartDate ==
    \E d \in Display(DateTexts, DateText("empty", 0)) :
      IF d.e THEN Edited(CurTodo, "Start date", "cancelled")
      ELSE Edited(updateStartDate(CurTodo, d.text), "Start date",
                  IF d.text.kind = "empty" THEN "cleared"
                  ELSE IF ParseDate(d.text).err THEN "dropped" ELSE "ok")

\* fmt.Sscanf(timeStr, "%d:%d", ...) and fmt.Sscanf(timeStr, "%02d%02d", ...)
Sscanf(timeStr) ==
    IF timeStr.kind \in {"colon", "plain"}
    THEN [hour |-> timeStr.hour, min |-> timeStr.min, err |-> FALSE]
    ELSE [hour |-> 0, min |-> 0, err |-> TRUE]

\* "err == nil && hour >= 0 && hour < 24 && min >= 0 && min < 60"
ValidTime(hm) ==
    ~hm.err /\ hm.hour >= 0 /\ hm.hour < HoursPerDay /\ hm.min >= 0 /\ hm.min < MinsPerHour

updateStartTime(t, timeStr, clock) ==
    IF timeStr.kind = "empty" THEN t
    ELSE LET hm == Sscanf(timeStr)
         IN IF ValidTime(hm)
            THEN LET sd == IF IsZero(t.StartDate) THEN clock ELSE t.StartDate
                 IN [t EXCEPT !.StartDate = Date(LocalDay(sd), hm.hour, hm.min),
                              !.Modified = TRUE]
            ELSE t

\* the Start time case: like updateStartDate, updateStartTime shows no
\* prompt for a text it does not take
EditStartTime ==
    \E tt \in Display(TimeTexts, TimeText("empty", 0, 0)) :
      IF tt.e THEN Edited(CurTodo, "Start time", "cancelled")
      ELSE Edited(updateStartTime(CurTodo, tt.text, Now), "Start time",
                  IF tt.text.kind = "empty" THEN "empty"
                  ELSE IF ValidTime(Sscanf(tt.text)) THEN "ok" ELSE "dropped")

EditDescription ==
    \E desc \in Display(DescriptionTexts, "") :
      IF desc.e THEN Edited(CurTodo, "Description", "cancelled")
      ELSE Edited([CurTodo EXCEPT !.Description = desc.text, !.Modified = TRUE],
                  "Description", "ok")

\* "Complete item" is on the menu of a task with a summary that is not
\* completed, "Restore item (uncomplete)" on that of a completed one
EditComplete ==
    /\ CurTodo.Summary # "" /\ CurTodo.Status # Completed
    /\ Edited([CurTodo EXCEPT !.Status = Completed, !.LastMod = Now, !.Modified = TRUE],
              "Complete item", "ok")

EditRestore ==
    /\ CurTodo.Summary # "" /\ CurTodo.Status = Completed
    /\ Edited([CurTodo EXCEPT !.Status = NeedsAction, !.LastMod = Now, !.Modified = TRUE],
              "Restore item", "ok")

\* a switch whose text without a case leaves the loop
EditUnrecognisedEnds ==
    /\ pc = "editItem"
    /\ Return(todoList, CurTodo)
    /\ Step("unrecognised", "ignored", FALSE)
    /\ UNCHANGED <<files, flags, menu>>

\* text that matches no case of the switch
EditUnrecognised == Edited(CurTodo, "unrecognised", "ignored")

(***************************************************************************)
(* deleteTodo, "Delete item" and "Delete All Completed".                   *)
(***************************************************************************)
\* the position of the first task with the given UID, 0 if there is none
FindUID(list, uid) ==
    IF \E i \in 1..Len(list) : list[i].UID = uid
    THEN CHOOSE i \in 1..Len(list) :
           list[i].UID = uid /\ \A j \in 1..(i - 1) : list[j].UID # uid
    ELSE 0

RemoveAt(list, i) ==
    IF i = 0 THEN list ELSE SubSeq(list, 1, i - 1) \o SubSeq(list, i + 1, Len(list))

\* the directory without an entry
RemoveFile(dir, uid) == [u \in DOMAIN dir \ {uid} |-> dir[u]]

\* deleteTodo that reports success whatever os.Remove answers
deleteTodoIgnoresError(t, list, dir, ioOK) ==
    [list |-> RemoveAt(list, FindUID(list, t.UID)),
     dir |-> IF t.UID \in DOMAIN dir /\ ioOK THEN RemoveFile(dir, t.UID) ELSE dir,
     ok |-> TRUE]

\* deleteTodo: the entry is taken out of the collection, then os.Remove runs;
\* it fails when there is no such file or the file system refuses (~ioOK)
deleteTodo(t, list, dir, ioOK) ==
    LET removed == t.UID \in DOMAIN dir /\ ioOK
    IN [list |-> RemoveAt(list, FindUID(list, t.UID)),
        dir |-> IF removed THEN RemoveFile(dir, t.UID) ELSE dir,
        ok |-> removed]

\* a y/N prompt that takes everything but "n" for a yes
confirmedUnlessNo(confirm) == ToLower(confirm.text) # "n"

\* 'strings.ToLower(confirm) == "y"': the error of the confirmation prompt
\* is discarded, a cancelled prompt answers ""
confirmed(confirm) == ToLower(confirm.text) = "y"

\* a step that asked for confirmation, with the answer it got
Answered(op, res, confirm) ==
    /\ now < EndNow
    /\ now' = Now
    /\ last' = [op |-> op, res |-> res, chg |-> FALSE, answer |-> confirm.text]

\* "Delete item"
EditDelete ==
    /\ pc = "editItem"
    /\ \E confirm \in Display(ConfirmTexts, ""), ioOK \in BOOLEAN :
         IF ~confirmed(confirm)
         THEN /\ Answered("Delete item", "declined", confirm)
              /\ UNCHANGED <<pc, ret, todoList, sel, todo, originalTodo, files>>
         ELSE LET t == CurTodo
                  i == FindUID(todoList, t.UID)
                  r == deleteTodo(t, todoList, files, ioOK)
              IN /\ files' = r.dir
                 /\ IF r.ok
                    THEN /\ Return(r.list, t)
                         /\ Answered("Delete item", "deleted", confirm)
                    ELSE /\ todoList' = r.list
                         /\ sel' = IF i = 0 \/ i = sel THEN 0 ELSE sel - 1
                         /\ todo' = IF sel > 0 /\ i = sel THEN t ELSE todo
                         /\ Answered("Delete item",
                                     IF t.UID \in DOMAIN files THEN "refused" ELSE "no file",
                                     confirm)
                         /\ UNCHANGED <<pc, ret, originalTodo>>
    /\ UNCHANGED <<flags, menu>>

\* the tasks of a collection with (keep) or without the status COMPLETED
RECURSIVE SelectCompleted(_, _)
SelectCompleted(list, keep) ==
    IF list = <<>> THEN <<>>
    ELSE (IF (Head(list).Status = Completed) = keep THEN <<Head(list)>> ELSE <<>>)
           \o SelectCompleted(Tail(list), keep)

\* the loop "Now delete all completed todos": deleteTodo for each, a task
\* whose deletion failed is appended to remainingTodos
RECURSIVE deleteAll(_, _, _, _, _)
deleteAll(completedTodos, remainingTodos, list, dir, refused) ==
    IF completedTodos = <<>> THEN [list |-> remainingTodos, dir |-> dir]
    ELSE LET t == Head(completedTodos)
             r == deleteTodo(t, list, dir, t.UID \notin refused)
         IN deleteAll(Tail(completedTodos),
                      IF r.ok THEN remainingTodos ELSE Append(remainingTodos, t),
                      r.list, r.dir, refused)

(***************************************************************************)
(* viewCompletedItems.                                                     *)
(***************************************************************************)
\* "Delete All Completed": the view returns to main whatever the answer
ViewDeleteAll ==
    /\ pc = "viewCompleted"
    /\ \E sorted \in SortSlice(todoList), confirm \in Display(ConfirmTexts, ""),
          refused \in SUBSET DOMAIN files :
         /\ menu' = createMenu(sorted, TRUE, flags, Now)
         /\ IF ~confirmed(confirm)
            THEN /\ todoList' = sorted
                 /\ files' = files
                 /\ Answered("Delete All Completed", "declined", confirm)
            ELSE LET r == deleteAll(SelectCompleted(sorted, TRUE),
                                    SelectCompleted(sorted, FALSE), sorted, files, refused)
                 IN /\ todoList' = r.list
                    /\ files' = r.dir
                    /\ Answered("Delete All Completed", "confirmed", confirm)
    /\ pc' = "main"
    /\ UNCHANGED <<ret, sel, todo, originalTodo, flags>>

\* any other non-empty text: a rendered line, or free text
ViewEdit ==
    /\ pc = "viewCompleted"
    /\ \E sorted \in SortSlice(todoList) :
         LET m == createMenu(sorted, TRUE, flags, Now).m
         IN \E out \in DOMAIN m \cup {FreeText} :
              /\ menu' = createMenu(sorted, TRUE, flags, Now)
              /\ IF Lookup(m, out) \in 1..Len(sorted)
                 THEN /\ EnterEdit(sorted, Lookup(m, out), "viewCompleted")
                      /\ Step("viewCompleted", "edit", out \notin DOMAIN m)
                 ELSE /\ todoList' = sorted
                      /\ pc' = "panic"
                      /\ Step("viewCompleted", "index out of range", FALSE)
                      /\ UNCHANGED <<ret, sel, todo, originalTodo>>
    /\ UNCHANGED <<files, flags>>

\* the prompt is cancelled or answered with nothing
ViewReturn ==
    /\ pc = "viewCompleted"
    /\ \E sorted \in SortSlice(todoList) :
         /\ todoList' = sorted
         /\ menu' = createMenu(sorted, TRUE, flags, Now)
    /\ pc' = "main"
    /\ Step("viewCompleted", "return", FALSE)
    /\ UNCHANGED <<ret, sel, todo, originalTodo, files, flags>>

\* display ends the program with log.Fatal at the prompt it is blocked on
LauncherFails ==
    /\ pc \in {"main", "addItem", "editItem", "viewCompleted"}
    /\ \E run \in LauncherRuns : display(run).fatal
    /\ pc' = "fatal"
    /\ Step("display", "fatal", FALSE)
    /\ UNCHANGED <<ret, todoList, sel, todo, originalTodo, files, flags, menu>>

Next ==
    \/ Load
    \/ MainAddItem
    \/ MainViewCompleted
    \/ MainEdit
    \/ MainExit
    \/ AddItemTitle
    \/ EditSave
    \/ EditCancel
    \/ EditTitle
    \/ EditPriority
    \/ EditCategories
    \/ EditDueDate
    \/ EditStartDate
    \/ EditStartTime
    \/ EditDescription
    \/ EditComplete
    \/ EditRestore
    \/ EditUnrecognised
    \/ EditDelete
    \/ ViewDeleteAll
    \/ ViewEdit
    \/ ViewReturn
    \/ LauncherFails

Spec == Init /\ [][Next]_vars

(***************************************************************************)
(* The program started on a directory another machine has written to: the  *)
(* UID of its open task is the reading that machine's clock gave to         *)
(* generateUID, and this machine's clock comes to the same reading during    *)
(* the run.                                                                  *)
(***************************************************************************)
AheadUID == StartNow + 1

AheadDirs ==
    {d1 @@ d2 :
       d1 \in {(AheadUID :> Calendar(<<Stored(AheadUID, "a", "", Absent,
                                               ZForm(StartNow - DayTicks))>>))},
       d2 \in {<<>>,
               (2 :> Calendar(<<Stored(2, "c", Completed, Absent, ZForm(StartNow - HourTicks))>>))}}

InitUID ==
    /\ pc = "start"
    /\ ret = "none"
    /\ todoList = <<>>
    /\ sel = 0
    /\ todo = NoTodo
    /\ originalTodo = NoTodo
    /\ files \in AheadDirs
    /\ now = StartNow
    /\ flags \in {[threshold |-> th, hideCreatedDate |-> FALSE] : th \in BOOLEAN}
    /\ last = Outcome("none", "none", FALSE)
    /\ menu = NoMenu

SpecUID == InitUID /\ [][Next]_vars

(***************************************************************************)
(* The start timestamp: the program is started on a directory whose task   *)
(* has no DTSTART, one on the minute, or one with seconds (as another       *)
(* client writes it), and the task's start date and start time are edited.  *)
(***************************************************************************)
StartedAt == Date(Today, 7, 15)

StartDirs ==
    {(1 :> Calendar(<<[Stored(1, "a", "", Absent, ZForm(StartNow - DayTicks))
                         EXCEPT !.DTSTART = start]>>)) :
       start \in {Absent, ZForm(StartedAt), ZForm(StartedAt + 30 * TicksPerSec)}}

InitStart ==
    /\ pc = "start"
    /\ ret = "none"
    /\ todoList = <<>>
    /\ sel = 0
    /\ todo = NoTodo
    /\ originalTodo = NoTodo
    /\ files \in StartDirs
    /\ now = StartNow
    /\ flags = [threshold |-> FALSE, hideCreatedDate |-> FALSE]
    /\ last = Outcome("none", "none", FALSE)
    /\ menu = NoMenu

NextStart == Load \/ MainEdit \/ EditStartDate \/ EditStartTime \/ EditSave \/ EditCancel

SpecStart == InitStart /\ [][NextStart]_vars

(***************************************************************************)
(* The program started on a directory whose open task has its CREATED in   *)
(* the local form of 15 characters, which is not the form saveTodos        *)
(* writes, or has none.                                                    *)
(***************************************************************************)
CreatedDirs ==
    {d1 @@ d2 :
       d1 \in {(1 :> Calendar(<<[Stored(1, "a", "", Absent, ZForm(StartNow - DayTicks))
                                  EXCEPT !.CREATED = created]>>)) :
                 created \in {Absent, LocalForm(StartNow - DayTicks)}},
       d2 \in {<<>>,
               (2 :> Calendar(<<Stored(2, "c", Completed, Absent, ZForm(StartNow - HourTicks))>>))}}

InitCreated ==
    /\ pc = "start"
    /\ ret = "none"
    /\ todoList = <<>>
    /\ sel = 0
    /\ todo = NoTodo
    /\ originalTodo = NoTodo
    /\ files \in CreatedDirs
    /\ now = StartNow
    /\ flags \in {[threshold |-> th, hideCreatedDate |-> FALSE] : th \in BOOLEAN}
    /\ last = Outcome("none", "none", FALSE)
    /\ menu = NoMenu

SpecCreated == InitCreated /\ [][Next]_vars

(***************************************************************************)
(* createMenu on its own: collections of up to MaxSortLen tasks that differ *)
(* in due date, priority and creation time are sorted by the two menus.    *)
(***************************************************************************)
MaxSortLen == 3

SortTasks ==
    {[NoTodo EXCEPT !.UID = 1, !.Summary = "a", !.Status = NeedsAction,
                    !.DueDate = due, !.Priority = p, !.Created = StartNow - c]
       : due \in {ZeroTime, Date(Today, 0, 0), Date(Today + 1, 0, 0)},
         p \in {0, 1, 2},
         c \in {DayTicks, HourTicks}}

InitSort ==
    /\ pc = "main"
    /\ ret = "none"
    /\ todoList \in UNION {[1..n -> SortTasks] : n \in 0..MaxSortLen}
    /\ sel = 0
    /\ todo = NoTodo
    /\ originalTodo = NoTodo
    /\ files = <<>>
    /\ now = StartNow
    /\ flags = [threshold |-> FALSE, hideCreatedDate |-> FALSE]
    /\ last = Outcome("none", "none", FALSE)
    /\ menu = NoMenu

NextSort == MainViewCompleted \/ ViewReturn

SpecSort == InitSort /\ [][NextSort]_vars

(***************************************************************************)
(* The comparator on its own: createMenu sorts every collection of three   *)
(* tasks drawn from tasks with one of three due dates, and tasks without a *)
(* due date with priority 0, 1, 2 or 9 and one of three creation times.    *)
(***************************************************************************)
OrderTasks ==
    {[NoTodo EXCEPT !.UID = 1, !.Summary = "a", !.Status = NeedsAction,
                    !.DueDate = Date(Today + d, 0, 0), !.Priority = p,
                    !.Created = StartNow - DayTicks]
       : d \in {0, 1, 2}, p \in {0, 1, 2}}
    \cup
    {[NoTodo EXCEPT !.UID = 1, !.Summary = "a", !.Status = NeedsAction,
                    !.Priority = p, !.Created = StartNow - c]
       : p \in {0, 1, 2, 9}, c \in {DayTicks, HourTicks, MinTicks}}

InitOrder ==
    /\ pc = "main"
    /\ ret = "none"
    /\ todoList \in [1..3 -> OrderTasks]
    /\ sel = 0
    /\ todo = NoTodo
    /\ originalTodo = NoTodo
    /\ files = <<>>
    /\ now = StartNow
    /\ flags = [threshold |-> FALSE, hideCreatedDate |-> FALSE]
    /\ last = Outcome("none", "none", FALSE)
    /\ menu = NoMenu

NextOrder == MainViewCompleted \/ ViewReturn

SpecOrder == InitOrder /\ [][NextOrder]_vars

(***************************************************************************)
(* createMenu as a renderer: collections of up to MaxMenuLen tasks that    *)
(* differ in status, start date and summary are rendered by the two menus  *)
(* under every setting of the two flags.                                   *)
(***************************************************************************)
MaxMenuLen == 3

\* a start date that is in the future at the first menus of a run and is
\* reached by the clock later in the run
StartLater == StartNow + 3

\* tasks "a" with and without a start date, tasks "b" without one, each open
\* or completed: two tasks of one summary and status render to the same line
MenuTasks ==
    {[NoTodo EXCEPT !.UID = 1, !.Summary = x[1], !.Status = st, !.StartDate = x[2],
                    !.Created = StartNow - DayTicks]
       : x \in {<<"a", ZeroTime>>, <<"a", StartLater>>, <<"b", ZeroTime>>},
         st \in {NeedsAction, Completed}}

InitMenu ==
    /\ pc = "main"
    /\ ret = "none"
    /\ todoList \in UNION {[1..n -> MenuTasks] : n \in 0..MaxMenuLen}
    /\ sel = 0
    /\ todo = NoTodo
    /\ originalTodo = NoTodo
    /\ files = <<>>
    /\ now = StartNow
    /\ flags \in [threshold : BOOLEAN, hideCreatedDate : BOOLEAN]
    /\ last = Outcome("none", "none", FALSE)
    /\ menu = NoMenu

NextMenu == MainViewCompleted \/ ViewReturn \/ MainEdit \/ ViewEdit

SpecMenu == InitMenu /\ [][NextMenu]_vars

(***************************************************************************)
(* display on its own: the program is blocked on a prompt and display      *)
(* classifies the run of the launcher.  last records the run next to what  *)
(* display did with it.                                                    *)
(***************************************************************************)
InitDisplay ==
    /\ pc = "main"
    /\ ret = "none"
    /\ todoList = <<>>
    /\ sel = 0
    /\ todo = NoTodo
    /\ originalTodo = NoTodo
    /\ files = <<>>
    /\ now = StartNow
    /\ flags = [threshold |-> FALSE, hideCreatedDate |-> FALSE]
    /\ last = Outcome("none", "none", FALSE)
    /\ menu = NoMenu

\* display returns to the prompt loop
DisplayReturns ==
    /\ pc = "main"
    /\ now < EndNow
    /\ now' = Now
    /\ \E run \in LauncherRuns :
         /\ ~display(run).fatal
         /\ last' = [op |-> "display", res |-> display(run), chg |-> FALSE, run |-> run]
    /\ UNCHANGED <<pc, ret, todoList, sel, todo, originalTodo, files, flags, menu>>

\* display ends the program
DisplayFatal ==
    /\ pc = "main"
    /\ now < EndNow
    /\ now' = Now
    /\ \E run \in LauncherRuns :
         /\ display(run).fatal
         /\ last' = [op |-> "display", res |-> display(run), chg |-> FALSE, run |-> run]
    /\ pc' = "fatal"
    /\ UNCHANGED <<ret, todoList, sel, todo, originalTodo, files, flags, menu>>

NextDisplay == DisplayReturns \/ DisplayFatal

SpecDisplay == InitDisplay /\ [][NextDisplay]_vars

(***************************************************************************)
(* loadTodos on its own: directories of up to MaxFiles entries, each a     *)
(* calendar of one task, a calendar of two tasks and an event, a file that *)
(* does not decode, or a file with another extension.                      *)
(***************************************************************************)
MaxFiles == 3

\* the files an entry named k can be; the tasks of entry k have the UIDs k
\* and k + MaxFiles
FilesFor(k) ==
    LET one == Stored(k, "a", "", Absent, ZForm(StartNow - DayTicks))
        two == Stored(k + MaxFiles, "c", Completed, Absent, ZForm(StartNow - HourTicks))
    IN {Calendar(<<one>>), Calendar(<<one, VEvent(k), two>>), Corrupt, TextFile(<<one>>)}

LoadDirs ==
    UNION {{d \in [1..n -> UNION {FilesFor(k) : k \in 1..n}] :
              \A k \in 1..n : d[k] \in FilesFor(k)} : n \in 0..MaxFiles}

InitLoad ==
    /\ pc = "start"
    /\ ret = "none"
    /\ todoList = <<>>
    /\ sel = 0
    /\ todo = NoTodo
    /\ originalTodo = NoTodo
    /\ files \in LoadDirs
    /\ now = StartNow
    /\ flags = [threshold |-> FALSE, hideCreatedDate |-> FALSE]
    /\ last = Outcome("none", "none", FALSE)
    /\ menu = NoMenu

NextLoad == Load

SpecLoad == InitLoad /\ [][NextLoad]_vars

(***************************************************************************)
(* Load, change, save, load again, as TestSaveTodos does it, in one        *)
(* directory of the layout the program keeps: file <uid>.ics holds the     *)
(* task uid, next to files that do not decode or have another extension.   *)
(***************************************************************************)
\* the files an entry named k can be: its task stored with few properties,
\* with all of them in the forms other programs write, with values that do
\* not parse, or next to an event
StoredFilesFor(k) ==
    LET plain == Stored(k, "a", "", Absent, ZForm(StartNow - DayTicks))
        full == [plain EXCEPT !.DESCRIPTION = "d", !.STATUS = Completed,
                              !.DUE = [form |-> "date", v |-> Today],
                              !.DTSTART = [form |-> "datetime", v |-> StartNow + LocalOffset],
                              !.PRIORITY = <<3>>, !.CATEGORIES = <<"w", "h">>]
        odd == [plain EXCEPT !.DUE = [form |-> "bad", v |-> 0], !.PRIORITY = <<0>>,
                             !.CREATED = Absent, !.LASTMOD = Absent]
    IN {Calendar(<<plain>>), Calendar(<<full>>), Calendar(<<odd>>),
        Calendar(<<VEvent(k), plain>>), Corrupt, TextFile(<<plain>>)}

StoredDirs ==
    UNION {{d \in [1..n -> UNION {StoredFilesFor(k) : k \in 1..n}] :
              \A k \in 1..n : d[k] \in StoredFilesFor(k)} : n \in 0..MaxFiles}

\* the task with one field given another value
Changes(t) ==
    ({[t EXCEPT !.Summary = x] : x \in {"", "b"}}
       \cup {[t EXCEPT !.Description = x] : x \in {"", "d"}}
       \cup {[t EXCEPT !.Status = x] : x \in {NeedsAction, Completed}}
       \cup {[t EXCEPT !.Priority = x] : x \in {0, 5}}
       \cup {[t EXCEPT !.Categories = x] : x \in {<<>>, <<"w">>}}
       \cup {[t EXCEPT !.DueDate = x] : x \in {ZeroTime, Date(Today + 1, 0, 0)}}
       \cup {[t EXCEPT !.StartDate = x] : x \in {ZeroTime, Date(Today, 9, 30)}})
      \ {t}

InitStored ==
    /\ pc = "start"
    /\ ret = "none"
    /\ todoList = <<>>
    /\ sel = 0
    /\ todo = NoTodo
    /\ originalTodo = NoTodo
    /\ files \in StoredDirs
    /\ now = StartNow
    /\ flags = [threshold |-> FALSE, hideCreatedDate |-> FALSE]
    /\ last = Outcome("none", "none", FALSE)
    /\ menu = NoMenu

\* one field of one task is changed and the task marked dirty
ChangeOne ==
    /\ pc = "main"
    /\ \E i \in 1..Len(todoList) :
         \E t \in Changes(todoList[i]) :
           /\ todoList' = [todoList EXCEPT ![i] = [t EXCEPT !.Modified = TRUE]]
           /\ sel' = i
           /\ originalTodo' = todoList[i]
    /\ pc' = "changed"
    /\ last' = Outcome("change", "ok", TRUE)
    /\ UNCHANGED <<ret, todo, files, now, flags, menu>>

\* saveTodos is called on the directory the tasks were loaded from
SaveChanged ==
    /\ pc = "changed"
    /\ \E fail \in {NoFail, [at |-> sel, how |-> "create"]} :
         LET r == saveTodos(todoList, files, fail)
         IN /\ todoList' = r.todos
            /\ files' = r.dir
            /\ pc' = IF r.err THEN "fatal" ELSE "saved"
            /\ last' = Outcome("saveTodos", IF r.err THEN "error" ELSE "ok", FALSE)
    /\ UNCHANGED <<ret, sel, todo, originalTodo, now, flags, menu>>

\* loadTodos is called again
Reload ==
    /\ pc = "saved"
    /\ \E readable \in BOOLEAN :
         LET r == loadTodos(files, readable)
         IN /\ todoList' = r.todos
            /\ pc' = IF r.err THEN "fatal" ELSE "reloaded"
            /\ last' = Outcome("loadTodos",
                               IF r.err THEN "error reading directory" ELSE "ok", FALSE)
    /\ UNCHANGED <<ret, sel, todo, originalTodo, files, now, flags, menu>>

NextStored == Load \/ ChangeOne \/ SaveChanged \/ Reload

SpecStored == InitStored /\ [][NextStored]_vars

(***************************************************************************)
(* Dates through the store: a dirty task whose due date and start date are *)
(* one of the instants below is saved and loaded again.                    *)
(***************************************************************************)
\* instants around midnight and in the middle of a day, on and off the whole
\* second
Instants ==
    {day * DayTicks + hour * HourTicks + min * MinTicks + sec * TicksPerSec + tick :
       day \in {Today, Today + 1}, hour \in {0, 12, HoursPerDay - 1},
       min \in {0, MinsPerHour - 1}, sec \in {0, SecsPerMin - 1}, tick \in {0, 1}}

InitTime ==
    /\ pc = "changed"
    /\ ret = "none"
    /\ \E t \in Instants :
         /\ originalTodo = [NoTodo EXCEPT !.UID = 1, !.Summary = "a", !.Status = NeedsAction,
                                          !.Created = StartNow, !.LastMod = StartNow,
                                          !.DueDate = t, !.StartDate = t, !.Modified = TRUE]
         /\ todoList = <<originalTodo>>
    /\ sel = 1
    /\ todo = NoTodo
    /\ files = <<>>
    /\ now = StartNow
    /\ flags = [threshold |-> FALSE, hideCreatedDate |-> FALSE]
    /\ last = Outcome("none", "none", FALSE)
    /\ menu = NoMenu

NextTime == SaveChanged \/ Reload

SpecTime == InitTime /\ [][NextTime]_vars

(***************************************************************************)
(* Properties.                                                             *)
(***************************************************************************)
\* the file of a uid, with its absence as a value
FileOf(dir, uid) == IF uid \in DOMAIN dir THEN dir[uid] ELSE [kind |-> "none", comps |-> <<>>]

Tasks(list) == {list[i] : i \in 1..Len(list)}

\* an editItem session of an existing task ends by cancellation of the
\* outer prompt in this step
CancelsExisting ==
    /\ pc = "editItem" /\ ret # "addItem"
    /\ last'.op = "editItem" /\ last'.res = "cancelled"

\* C1: when the outer edit prompt of an existing task is cancelled, the task
\* has every field, Modified included, at the value it had when the session
\* was entered, whatever was edited or rejected in between, and no file is
\* touched.  The value at entry is the copy taken on entry, which no step of
\* the session changes.
C1_CancelRestoresEntryValues ==
    [][/\ (pc # "editItem" /\ pc' = "editItem" /\ ret' # "addItem")
            => (sel' > 0 /\ originalTodo' = todoList'[sel'])
       /\ (pc = "editItem" /\ pc' = "editItem") => originalTodo' = originalTodo
       /\ (CancelsExisting /\ sel > 0)
            => (/\ todoList' = [todoList EXCEPT ![sel] = originalTodo]
                /\ files' = files)]_vars

\* a session of an existing task was cancelled after edits that had changed
\* the task
C1_Witness ==
    /\ last = Outcome("editItem", "cancelled", TRUE)
    /\ ret \in {"main", "viewCompleted"}

\* C2: saveTodos leaves the directory entry <uid>.ics of every task whose
\* Modified flag is false as it was, its absence included, whether the save
\* succeeds or fails.
C2_SaveSkipsUnmodified ==
    [][last'.op = "saveTodos"
         => \A t \in Tasks(todoList) :
              ~t.Modified => FileOf(files', t.UID) = FileOf(files, t.UID)]_vars

\* a save wrote the file of one task and passed over an unmodified task
C2_Witness ==
    /\ pc = "done"
    /\ \E t \in Tasks(todoList) : t.LastMod < StartNow /\ t.UID \in DOMAIN files
    /\ \E t \in Tasks(todoList) : t.LastMod > StartNow /\ t.UID \in DOMAIN files

\* the file holds the managed values of a task: decoding its component gives
\* the task back, the timestamps at the whole second the stored form names
Holds(dir, t) ==
    /\ t.UID \in DOMAIN dir
    /\ dir[t.UID].kind = "cal"
    /\ \E k \in 1..Len(dir[t.UID].comps) :
         LET l == convertVTodoToTodo(dir[t.UID].comps[k])
         IN /\ l.UID = t.UID
            /\ l.Summary = t.Summary
            /\ l.Description = t.Description
            /\ l.Status = t.Status
            /\ l.Priority = t.Priority
            /\ l.Categories = t.Categories
            /\ l.DueDate = t.DueDate
            /\ l.StartDate = t.StartDate
            /\ l.LastMod = (t.LastMod \div TicksPerSec) * TicksPerSec

\* C3: after a successful saveTodos every task has Modified = FALSE, every
\* task that was dirty has a file <uid>.ics that holds its managed values,
\* and a second saveTodos right after writes nothing.
C3_SaveClearsAndPersists ==
    [][(last'.op = "saveTodos" /\ last'.res = "ok")
         => /\ \A t \in Tasks(todoList') : ~t.Modified
            /\ \A t \in Tasks(todoList) : t.Modified => Holds(files', t)
            /\ saveTodos(todoList', files', NoFail)
                 = [todos |-> todoList', dir |-> files', err |-> FALSE]]_vars

\* a save succeeded that wrote a task stamped in this run
C3_Witness ==
    /\ pc = "done"
    /\ last = Outcome("saveTodos", "ok", FALSE)
    /\ \E t \in Tasks(todoList) : t.LastMod > StartNow /\ Holds(files, [t EXCEPT !.Modified = TRUE])

\* addItem gives up at its title prompt in this step
AddAbandoned == pc = "addItem" /\ last'.op = "addItem" /\ last'.res \in {"cancelled", "empty"}

\* C4: when the title prompt of addItem is cancelled or answered with an
\* empty title, addItem returns with the collection and the directory as
\* they were and the task it had built discarded, and a save that follows
\* creates files only for tasks of that collection, none for the discarded
\* task.
C4_AbandonedAddAddsNothing ==
    [][/\ AddAbandoned
            => (todoList' = todoList /\ files' = files /\ pc' = "main" /\ todo' = NoTodo)
       /\ (last.op = "addItem" /\ last.res \in {"cancelled", "empty"}
             /\ last'.op = "saveTodos")
            => \A u \in DOMAIN files' \ DOMAIN files :
                 \E t \in Tasks(todoList) : t.UID = u]_vars

\* addItem has returned on an empty title
C4_Witness ==
    /\ last = Outcome("addItem", "empty", FALSE)
    /\ pc = "main"
    /\ todo = NoTodo

\* the editItem session of a new task ends in this step
NewSessionEnds == pc = "editItem" /\ ret = "addItem" /\ pc' # "editItem"

\* C5: the new task of addItem is appended to the collection exactly when
\* its session ends with Save while its summary is non-empty; when the
\* session ends otherwise, cancellation after any edits included, the
\* collection is the same as before.  While the session lasts the task is
\* not in the collection, and no step of the session or its end gives it a
\* file.
C5_NewTaskAppendedIffSaved ==
    [][/\ NewSessionEnds
            => IF last'.res = "saved" /\ todo.Summary # ""
               THEN /\ Len(todoList') = Len(todoList) + 1
                    /\ SubSeq(todoList', 1, Len(todoList)) = todoList
                    /\ todoList'[Len(todoList')].UID = todo.UID
                    /\ todoList'[Len(todoList')].Summary = todo.Summary
               ELSE todoList' = todoList
       /\ (pc = "editItem" /\ ret = "addItem")
            => (/\ sel = 0
                /\ \A t \in Tasks(todoList) : t.UID # todo.UID
                /\ todo.UID \notin DOMAIN files')]_vars

\* the session of a new task was cancelled after edits
C5_Witness ==
    /\ last = Outcome("editItem", "cancelled", TRUE)
    /\ ret = "addItem"
    /\ pc = "main"

\* C6 (as claimed): in the collection the final save has persisted no task
\* has an empty summary.
C6_NoEmptySummaryPersisted ==
    pc = "done" => \A t \in Tasks(todoList) : t.Summary # ""

\* C7 (as claimed): when Delete is confirmed and the file system does not
\* refuse the removal, the task is no longer in the collection, its file is
\* gone and the session has ended - also for a task that has no file yet.
C7_ConfirmedDeleteEnds ==
    [][(pc = "editItem" /\ last'.op = "Delete item"
          /\ last'.res \in {"deleted", "no file"})
         => (/\ pc' # "editItem"
             /\ \A t \in Tasks(todoList') : t.UID # CurTodo.UID
             /\ CurTodo.UID \notin DOMAIN files')]_vars

\* C8 (as claimed): when the removal of the file fails, the collection is
\* the same as before deleteTodo was called.
C8_FailedDeleteKeepsCollection ==
    [][(pc = "editItem" /\ last'.op = "Delete item"
          /\ last'.res \in {"refused", "no file"})
         => todoList' = todoList]_vars

\* "Delete All Completed" is confirmed in this step
DeleteAllConfirmed ==
    pc = "viewCompleted" /\ last'.op = "Delete All Completed" /\ last'.res = "confirmed"

\* the non-completed tasks are in the collection as they were, their files
\* untouched
ActiveUntouched ==
    /\ {t \in Tasks(todoList') : t.Status # Completed}
         = {t \in Tasks(todoList) : t.Status # Completed}
    /\ Len(SelectCompleted(todoList', FALSE)) = Len(SelectCompleted(todoList, FALSE))
    /\ \A t \in Tasks(todoList) :
         t.Status # Completed => FileOf(files', t.UID) = FileOf(files, t.UID)

\* C9 (as claimed): after a confirmed "Delete All Completed" no task of the
\* collection is COMPLETED, the file of every formerly completed task is
\* gone, and the other tasks and their files are untouched.
C9_DeleteAllLeavesNoCompleted ==
    [][DeleteAllConfirmed
         => (/\ \A t \in Tasks(todoList') : t.Status # Completed
             /\ \A t \in Tasks(todoList) : t.Status = Completed => t.UID \notin DOMAIN files'
             /\ ActiveUntouched)]_vars

\* C9 (amended): after a confirmed "Delete All Completed" every completed
\* task whose file was removed is out of the collection, the only completed
\* tasks left are those whose file could not be removed (it was refused or
\* there was none), and the other tasks and their files are untouched.
C9_DeleteAllKeepsOnlyFailed ==
    [][DeleteAllConfirmed
         => (/\ \A t \in Tasks(todoList) :
                  t.Status = Completed
                    => IF t.UID \in DOMAIN files /\ t.UID \notin DOMAIN files'
                       THEN t \notin Tasks(todoList')
                       ELSE t \in Tasks(todoList')
             /\ \A t \in Tasks(todoList') :
                  t.Status = Completed
                    => (t \in Tasks(todoList)
                        /\ (t.UID \notin DOMAIN files \/ t.UID \in DOMAIN files'))
             /\ Len(todoList') <= Len(todoList)
             /\ ActiveUntouched)]_vars

\* a confirmed "Delete All Completed" removed the completed task of file 2
\* and left an open task
C9_Witness ==
    /\ last.op = "Delete All Completed" /\ last.res = "confirmed"
    /\ 2 \notin DOMAIN files
    /\ \E t \in Tasks(todoList) : t.Status # Completed
    /\ \A t \in Tasks(todoList) : t.UID # 2

\* C10: in the order createMenu leaves the collection in, a task with a due
\* date is before every task without one, tasks with different due dates are
\* in ascending due date, among tasks without a due date a priority 1..9 is
\* before every greater priority and before priority 0, and tasks without a
\* due date of equal priority are newest-created first.
C10_MenuOrder ==
    last.op \in {"main", "viewCompleted"}
      => \A i, j \in 1..Len(todoList) :
           i < j =>
             LET a == todoList[i]
                 b == todoList[j]
             IN /\ ~(IsZero(a.DueDate) /\ ~IsZero(b.DueDate))
                /\ (~IsZero(a.DueDate) /\ ~IsZero(b.DueDate)) => a.DueDate <= b.DueDate
                /\ (IsZero(a.DueDate) /\ IsZero(b.DueDate) /\ a.Priority # b.Priority)
                     => (a.Priority # 0 /\ (b.Priority = 0 \/ a.Priority < b.Priority))
                /\ (IsZero(a.DueDate) /\ IsZero(b.DueDate) /\ a.Priority = b.Priority)
                     => a.Created >= b.Created

\* createMenu has ordered a full collection: two tasks of different due
\* dates first, a task without a due date last
C10_Witness ==
    /\ last.op \in {"main", "viewCompleted"}
    /\ Len(todoList) = MaxSortLen
    /\ ~IsZero(todoList[1].DueDate)
    /\ todoList[1].DueDate < todoList[2].DueDate
    /\ IsZero(todoList[Len(todoList)].DueDate)

\* C11 (as claimed): in the order createMenu leaves the collection in, two
\* tasks with the same due date that is not absent are in ascending priority
\* with 0 last, and when their priorities are equal too, newest-created
\* first.
C11_DueTiesBrokenByPriority ==
    last.op \in {"main", "viewCompleted"}
      => \A i, j \in 1..Len(todoList) :
           i < j =>
             LET a == todoList[i]
                 b == todoList[j]
             IN (~IsZero(a.DueDate) /\ a.DueDate = b.DueDate)
                  => /\ a.Priority # b.Priority
                          => (a.Priority # 0 /\ (b.Priority = 0 \/ a.Priority < b.Priority))
                     /\ a.Priority = b.Priority => a.Created >= b.Created

\* createMenu has just returned: the collection is in the order it sorted
\* it to and the clock is the time it read
MenuFresh == last.op \in {"main", "viewCompleted"}

\* the mode of the last createMenu
CompletedMode == menu.header = <<"Delete All Completed">>

\* the lines of a sequence of tasks
LinesOf(ts) == [k \in 1..Len(ts) |-> Line(ts[k], flags.hideCreatedDate)]

\* C12: createMenu renders exactly the tasks that pass the filter, one line
\* each in the order of the collection: in completed mode the tasks with
\* status COMPLETED and no others, in active mode the tasks with any other
\* status, except that with the threshold flag on a task whose start date is
\* not zero and strictly after now is left out.
C12_RendersExactlyFiltered ==
    MenuFresh
      => IF CompletedMode
         THEN menu.list = LinesOf(SelectSeq(todoList, LAMBDA t : t.Status = Completed))
         ELSE menu.list =
                LinesOf(SelectSeq(todoList,
                                  LAMBDA t : /\ t.Status # Completed
                                             /\ ~(/\ flags.threshold
                                                   /\ t.StartDate # ZeroTime
                                                   /\ t.StartDate > now)))

\* the active menu was rendered with the threshold on for a collection that
\* holds an open task with a future start date, an open task it shows and a
\* completed task
C12_Witness ==
    /\ MenuFresh /\ ~CompletedMode /\ flags.threshold
    /\ \E t \in Tasks(todoList) : t.Status # Completed /\ t.StartDate > now
    /\ \E t \in Tasks(todoList) : t.Status = Completed /\ t.StartDate > now
    /\ Len(menu.list) = 1

\* a task passes the filter of the mode the last menu was made in
PassesFilter(t) ==
    IF CompletedMode THEN t.Status = Completed
    ELSE /\ t.Status # Completed
         /\ ~(flags.threshold /\ t.StartDate # ZeroTime /\ t.StartDate > now)

\* C13: for every entry (line -> i) of the lookup map createMenu returns, i
\* is a position of the collection as that call sorted it, the task at i
\* passes the filter of the mode, and the line that task renders as is the
\* key; the caller reads the collection at that position before anything
\* changes it, so the task a selected line opens is the task at the position
\* the map gives, and it renders as the selected line.
C13_MapEntriesValid ==
    MenuFresh
      => /\ \A l \in DOMAIN menu.m :
              /\ menu.m[l] \in 1..Len(todoList)
              /\ PassesFilter(todoList[menu.m[l]])
              /\ Line(todoList[menu.m[l]], flags.hideCreatedDate) = l
         /\ (last.res = "edit" /\ ~last.chg)
              => /\ sel \in 1..Len(todoList)
                 /\ originalTodo = todoList[sel]
                 /\ Line(originalTodo, flags.hideCreatedDate) \in DOMAIN menu.m
                 /\ menu.m[Line(originalTodo, flags.hideCreatedDate)] = sel

\* a line of the active menu was selected whose task stands in the
\* collection behind tasks the menu does not show
C13_Witness ==
    /\ last = Outcome("main", "edit", FALSE)
    /\ pc = "editItem"
    /\ sel > Len(menu.list)
    /\ Cardinality(DOMAIN menu.m) >= 2

\* C14 (as claimed): the lookup map createMenu returns has exactly one entry
\* per task rendered in the menu; in particular, in active mode with the
\* threshold off and no completed task, it has as many entries as the
\* collection has tasks.
C14_OneEntryPerRenderedTask ==
    MenuFresh
      => /\ Cardinality(DOMAIN menu.m) = Len(menu.list)
         /\ (/\ ~CompletedMode /\ ~flags.threshold
             /\ \A t \in Tasks(todoList) : t.Status # Completed)
              => Cardinality(DOMAIN menu.m) = Len(todoList)

\* the rendered lines are pairwise distinct
DistinctLines == \A i, j \in 1..Len(menu.list) : menu.list[i] = menu.list[j] => i = j

\* C14 (amended): the lookup map has exactly one entry per distinct rendered
\* line, and a line that several tasks render maps to the last of them in
\* the collection; so it has one entry per rendered task when the rendered
\* lines are pairwise distinct, and then, in active mode with the threshold
\* off and no completed task, as many entries as the collection has tasks.
C14_OneEntryPerDistinctLine ==
    MenuFresh
      => /\ DOMAIN menu.m = {menu.list[k] : k \in 1..Len(menu.list)}
         /\ \A l \in DOMAIN menu.m :
              \A j \in 1..Len(todoList) :
                (PassesFilter(todoList[j]) /\ Line(todoList[j], flags.hideCreatedDate) = l)
                  => j <= menu.m[l]
         /\ DistinctLines
              => /\ Cardinality(DOMAIN menu.m) = Len(menu.list)
                 /\ (/\ ~CompletedMode /\ ~flags.threshold
                     /\ \A t \in Tasks(todoList) : t.Status # Completed)
                      => Cardinality(DOMAIN menu.m) = Len(todoList)

\* a menu of three lines was rendered of which two are the same
C14_Witness ==
    /\ MenuFresh
    /\ Len(menu.list) = 3
    /\ Cardinality(DOMAIN menu.m) = 2

\* the text has no trailing newline and the run's stdout is that text
\* followed by newlines only
IsTrimmed(result, stdout) ==
    /\ Len(result) <= Len(stdout)
    /\ SubSeq(stdout, 1, Len(result)) = result
    /\ \A k \in (Len(result) + 1)..Len(stdout) : stdout[k] = "\n"
    /\ result # <<>> => result[Len(result)] # "\n"

\* C15: display classifies a run of the launcher: exit 0 gives the selection,
\* stdout without its trailing newlines, and no error; exit status 1 with
\* empty stderr gives the empty result with the escape error and is not
\* fatal; any failed run with non-empty stderr, and any failed run other
\* than exit status 1, is fatal.  Cancellation is never reported when stderr
\* is not empty.
C15_DisplayClassifies ==
    last.op = "display"
      => LET run == last.run
             d == last.res
         IN /\ run.err = NoError
                 => (~d.fatal /\ d.e = NoError /\ IsTrimmed(d.result, run.stdout))
            /\ (run.err = "exit status 1" /\ run.stderr = <<>>)
                 => (~d.fatal /\ d.result = <<>> /\ d.e = "escape")
            /\ (run.err # NoError /\ (run.stderr # <<>> \/ run.err # "exit status 1"))
                 => d.fatal
            /\ (~d.fatal /\ d.e = "escape") => run.stderr = <<>>

\* the launcher exited with status 1 after it wrote diagnostics, and display
\* ended the program
C15_Witness ==
    /\ last.op = "display"
    /\ last.run.err = "exit status 1"
    /\ last.run.stderr # <<>>
    /\ last.res.fatal
    /\ pc = "fatal"

\* the top-level prompt is cancelled in this step
TopLevelCancelled == pc = "main" /\ last'.op = "saveTodos"

\* the loop ends with the one saveTodos of the run, which, when nothing
\* fails, writes every task that is Modified at that moment
ExitSaves ==
    TopLevelCancelled
      => /\ pc' \in {"done", "fatal"}
         /\ last'.res = "ok"
              => /\ pc' = "done"
                 /\ \A t \in Tasks(todoList) : t.Modified => Holds(files', t)

\* no other step writes a file, and no step follows the end of the run
WritesOnlyAtExit ==
    /\ ~TopLevelCancelled
         => \A u \in DOMAIN files' : u \in DOMAIN files /\ files'[u] = files[u]
    /\ pc \in {"done", "fatal", "panic"} => UNCHANGED vars

\* the task at position i is committed: it is Modified, by the copy made on
\* entry when it is the task of the session in progress
Committed(list, i, at, position, original) ==
    IF at = "editItem" /\ i = position THEN original.Modified ELSE list[i].Modified

\* a session that ends with Save leaves its task in the collection,
\* committed, with the values it had in the session
SaveCommits ==
    (pc = "editItem" /\ last'.op = "editItem" /\ last'.res = "saved")
      => \E j \in 1..Len(todoList') :
           /\ todoList'[j] = [CurTodo EXCEPT !.Modified = TRUE, !.LastMod = todoList'[j].LastMod]
           /\ Committed(todoList', j, pc', sel', originalTodo')

\* a committed task stays in the collection, committed, until it is deleted
\* or saved
CommittedStays ==
    last'.op \notin {"Delete item", "Delete All Completed", "saveTodos"}
      => \A i \in 1..Len(todoList) :
           Committed(todoList, i, pc, sel, originalTodo)
             => \E j \in 1..Len(todoList') :
                  /\ todoList'[j].UID = todoList[i].UID
                  /\ Committed(todoList', j, pc', sel', originalTodo')

\* C16 (as claimed): whenever the top-level prompt is cancelled the loop ends
\* and saveTodos runs, the only time in the run; every task that is in the
\* collection with Modified = TRUE at that moment is written to its file
\* when no write fails; and every edit or add committed with Save is in the
\* collection as a Modified task from then on until it is deleted, so the
\* save at the exit persists it.
C16_SaveCommitsArePersisted ==
    [][ExitSaves /\ WritesOnlyAtExit /\ SaveCommits /\ CommittedStays]_vars

\* the todo components of the decodable .ics files of a directory, each as
\* the name of its file and its position in it
TodoComponents(dir) ==
    UNION {{<<k, i>> : i \in {i \in 1..Len(dir[k].comps) :
                                "SUMMARY" \in DOMAIN dir[k].comps[i]}}
             : k \in {k \in DOMAIN dir : dir[k].kind = "cal"}}

\* C17: loadTodos returns exactly one task per todo component of each
\* decodable .ics file: N files of one todo each give N tasks, a file with
\* another extension gives none, and a file that does not decode gives none
\* while the tasks of the other files are all returned; the only error
\* loadTodos returns is that of reading the directory.
C17_OneTaskPerTodoComponent ==
    last.op = "loadTodos"
      => /\ last.res \in {"ok", "error reading directory"}
         /\ last.res = "error reading directory" => (todoList = <<>> /\ pc = "fatal")
         /\ last.res = "ok"
              => /\ pc = "main"
                 /\ Len(todoList) = Cardinality(TodoComponents(files))
                 /\ \A c \in TodoComponents(files) :
                      \E j \in 1..Len(todoList) :
                        /\ todoList[j].UID = files[c[1]].comps[c[2]].UID
                        /\ todoList[j].Summary = files[c[1]].comps[c[2]].SUMMARY
                 /\ (\A k \in DOMAIN files :
                       files[k].kind = "cal" /\ Len(files[k].comps) = 1)
                      => Len(todoList) = Cardinality(DOMAIN files)

\* a directory of a calendar with two tasks and an event, a file that does
\* not decode and a file with another extension was loaded
C17_Witness ==
    /\ last = Outcome("loadTodos", "ok", FALSE)
    /\ Cardinality(DOMAIN files) = 3
    /\ \E k \in DOMAIN files : files[k].kind = "corrupt"
    /\ \E k \in DOMAIN files : files[k].kind = "txt"
    /\ Len(todoList) = 2

C19_UTCFormRoundTrips ==
    (pc \in {"saved", "reloaded"} /\ originalTodo.DueDate % TicksPerSec = 0)
      => LET t == originalTodo.DueDate
             s == files[1].comps[1].DUE
         IN /\ s.form = "Z"
            /\ files[1].comps[1].DTSTART = s
            /\ parseDateTime(s) = t
            /\ ZForm(parseDateTime(s)) = s
            /\ LocalHour(parseDateTime(s)) = (s.v.hour + LocalOffsetHours) % HoursPerDay
            /\ LocalMinute(parseDateTime(s)) = s.v.min
            /\ LocalDay(parseDateTime(s))
                 = s.v.day + (IF s.v.hour + LocalOffsetHours >= HoursPerDay THEN 1 ELSE 0)
            /\ pc = "reloaded"
                 => (todoList[1].DueDate = t /\ todoList[1].StartDate = t)

\* a task due in the last second of a UTC day, which is in the next day of
\* the local zone, was saved and loaded again
C19_Witness ==
    /\ pc = "reloaded"
    /\ originalTodo.DueDate % TicksPerSec = 0
    /\ files[1].comps[1].DUE.v.hour = HoursPerDay - 1
    /\ files[1].comps[1].DUE.v.sec = SecsPerMin - 1
    /\ LocalDay(todoList[1].DueDate) = files[1].comps[1].DUE.v.day + 1

\* the sub-prompt of an editable field returns an input that is accepted in
\* this step: a value for the field, or the empty text that clears a date
FieldAccepted ==
    /\ pc = "editItem"
    /\ last'.op \in {"Title", "Description", "Priority", "Categories", "Due date",
                     "Start date", "Start time"}
    /\ last'.res \in {"ok", "cleared"}

\* C20 (as claimed): whenever the sub-prompt of an editable field returns
\* without cancellation and the input is accepted, an empty input that
\* clears the due date or the start date included, the field has the new
\* value and the Modified flag of the task is true right after, before any
\* Save.
C20_AcceptedEditMarksModified ==
    [][FieldAccepted
         => LET t == IF sel' > 0 THEN todoList'[sel'] ELSE todo'
            IN /\ t.Modified
               /\ (last'.op = "Title") => t.Summary \in TitleTexts
               /\ (last'.op = "Description") => t.Description \in DescriptionTexts
               /\ (last'.op = "Priority") => t.Priority \in 0..9
               /\ (last'.op = "Due date" /\ last'.res = "cleared") => IsZero(t.DueDate)
               /\ (last'.op = "Due date" /\ last'.res = "ok")
                    => t.DueDate = Date(Today + 1, 0, 0)
               /\ (last'.op = "Start date" /\ last'.res = "cleared") => IsZero(t.StartDate)
               /\ (last'.op = "Start date" /\ last'.res = "ok")
                    => LocalDay(t.StartDate) = Today + 1
               /\ (last'.op = "Start time") => formatTime(t.StartDate) = 9 * MinsPerHour + 30]_vars

(***************************************************************************)
(* C21: invalid input in an edit sub-prompt (a priority that is not an     *)
(* integer in 0..9, a malformed due date, start date or start time) leaves *)
(* every field of the task, Modified included, as it was, is answered with *)
(* a feedback prompt, and the session stays in the edit loop.              *)
(***************************************************************************)
InvalidInput ==
    /\ pc = "editItem"
    /\ last'.op \in {"Priority", "Due date", "Start date", "Start time"}
    /\ last'.res \in {"rejected", "dropped"}

C21_InvalidInputRejectedWithFeedback ==
    [][InvalidInput
         => /\ todoList' = todoList /\ todo' = todo /\ sel' = sel
            /\ pc' = "editItem"
            /\ last'.res = "rejected"]_vars

(***************************************************************************)
(* C22: the UIDs of the tasks in the collection are pairwise distinct in   *)
(* every reachable state: from a loaded store with distinct UIDs, addItem  *)
(* never appends a task with the UID of a task already in the collection.  *)
(***************************************************************************)
C22_UIDsDistinct ==
    \A i, j \in 1..Len(todoList) : i # j => todoList[i].UID # todoList[j].UID

(***************************************************************************)
(* C23: start date and start time share one timestamp.  A valid start date *)
(* given to a task that has a start changes only its day and keeps hour    *)
(* and minute; a valid start time given to a task that has a start changes *)
(* only hour and minute and keeps the day; a start time given to a task    *)
(* without a start is on the current day; a start date given to a task     *)
(* without a start is that day at 00:00.                                   *)
(***************************************************************************)
StartDateSet == pc = "editItem" /\ last'.op = "Start date" /\ last'.res = "ok"
StartTimeSet == pc = "editItem" /\ last'.op = "Start time" /\ last'.res = "ok"

\* the part of an instant below the minute
BelowMinute(t) == (t + LocalOffset) % MinTicks

\* as stated: nothing but the day, or nothing but hour and minute, changes
C23_StartSharesOneTimestamp ==
    [][LET old == CurTodo.StartDate
           new == (IF sel' > 0 THEN todoList'[sel'] ELSE todo').StartDate
       IN /\ StartDateSet =>
               /\ LocalDay(new) = Today + 1
               /\ IF IsZero(old) THEN new = Date(Today + 1, 0, 0)
                  ELSE /\ LocalHour(new) = LocalHour(old)
                       /\ LocalMinute(new) = LocalMinute(old)
                       /\ BelowMinute(new) = BelowMinute(old)
          /\ StartTimeSet =>
               /\ LocalHour(new) = 9 /\ LocalMinute(new) = 30
               /\ IF IsZero(old) THEN new = Date(LocalDay(now'), 9, 30)
                  ELSE /\ LocalDay(new) = LocalDay(old)
                       /\ BelowMinute(new) = BelowMinute(old)]_vars

\* as the code has it: day, hour and minute as stated, and the seconds of
\* the start are set to zero by either edit
C23_StartSharesOneTimestampToTheMinute ==
    [][LET old == CurTodo.StartDate
           new == (IF sel' > 0 THEN todoList'[sel'] ELSE todo').StartDate
       IN /\ StartDateSet =>
               new = IF IsZero(old) THEN Date(Today + 1, 0, 0)
                     ELSE Date(Today + 1, LocalHour(old), LocalMinute(old))
          /\ StartTimeSet =>
               new = IF IsZero(old) THEN Date(LocalDay(now'), 9, 30)
                     ELSE Date(LocalDay(old), 9, 30)]_vars

\* a start date was given to a task whose start was at 07:15, and the start
\* is now on the new day at 07:15
C23_Witness ==
    /\ pc = "editItem" /\ last.op = "Start date" /\ last.res = "ok"
    /\ CurTodo.StartDate = Date(Today + 1, 7, 15)

(***************************************************************************)
(* C24: while the program runs, an editItem session ends in exactly three  *)
(* ways: "Save item" was selected, the outer prompt was cancelled, or the  *)
(* deletion was confirmed and deleteTodo removed the file.  Every other    *)
(* answer (a field edit, Complete/Restore, a delete that was declined or   *)
(* failed, text without a case) leaves the session at the edit menu.       *)
(***************************************************************************)
SessionEnds == pc = "editItem" /\ pc' # "editItem"

EndedBy ==
    \/ last'.op = "editItem" /\ last'.res \in {"saved", "cancelled"}
    \/ last'.op = "Delete item" /\ last'.res = "deleted" /\ DOMAIN files' # DOMAIN files

C24_SessionEndsBySaveCancelDelete ==
    [][(pc = "editItem" /\ pc' # "fatal")
         => /\ SessionEnds <=> EndedBy
            /\ SessionEnds => pc' = (IF ret = "viewCompleted" THEN "viewCompleted" ELSE "main")]_vars

\* a confirmed delete failed and the session is still at the edit menu
C24_Witness ==
    /\ pc = "editItem"
    /\ last.op = "Delete item" /\ last.res \in {"refused", "no file"}

(***************************************************************************)
(* C25: "Save item" always ends the session with the task Modified and its *)
(* LastMod stamped with the time of the save, whether or not a field was   *)
(* changed in the session; every other field keeps the value it had when   *)
(* "Save item" was selected.  (The task is observed where editItem leaves  *)
(* it: in the collection, or appended to it by addItem, which appends the  *)
(* saved new task when it has a summary.)                                  *)
(***************************************************************************)
SaveSelected == pc = "editItem" /\ last'.op = "editItem" /\ last'.res = "saved"

Stamped(t, at) == [t EXCEPT !.Modified = TRUE, !.LastMod = at]

C25_SaveMarksAndStamps ==
    [][SaveSelected
         => /\ pc' # "editItem"
            /\ sel > 0 => todoList' = [todoList EXCEPT ![sel] = Stamped(todoList[sel], now')]
            /\ (sel = 0 /\ ret = "addItem" /\ todo.Summary # "")
                 => todoList' = Append(todoList, Stamped(todo, now'))]_vars

\* the loaded task was opened and saved at once: no field was changed, and
\* it is Modified and stamped
C25_Witness ==
    /\ last.op = "editItem" /\ last.res = "saved"
    /\ now = StartNow + 2
    /\ \E i \in 1..Len(todoList) :
         /\ todoList[i].UID = 1 /\ todoList[i].Summary = "a"
         /\ todoList[i].Modified /\ todoList[i].LastMod = now

(***************************************************************************)
(* C26: nothing is deleted without an explicit yes.  When the prompt of    *)
(* "Delete item" or of "Delete All Completed" is answered with anything    *)
(* but y or Y (a cancelled prompt included), the collection holds the same *)
(* tasks and every file is as it was; the session of "Delete item" stays   *)
(* at the edit menu, and the completed view returns to the active menu.    *)
(***************************************************************************)
NotConfirmed ==
    /\ last'.op \in {"Delete item", "Delete All Completed"}
    /\ last'.answer \notin {"y", "Y"}

C26_NoDeletionWithoutConfirmation ==
    [][NotConfirmed
         => /\ files' = files
            /\ last'.op = "Delete item"
                 => /\ todoList' = todoList /\ sel' = sel /\ todo' = todo
                    /\ pc' = "editItem"
            /\ last'.op = "Delete All Completed"
                 => /\ todoList' \in SortSlice(todoList)
                    /\ pc' = "main"]_vars

\* the prompt of "Delete All Completed" was cancelled: the completed task is
\* still there, with its file, and the active menu is next
C26_Witness ==
    /\ last.op = "Delete All Completed" /\ last.answer = ""
    /\ pc = "main"
    /\ \E i \in 1..Len(todoList) :
         todoList[i].Status = Completed /\ todoList[i].UID \in DOMAIN files

(***************************************************************************)
(* C27: with every priority in 0..9 on entry, every priority is in 0..9 in *)
(* every state the edit controller reaches: the Priority edit takes the    *)
(* integers 0..9 and nothing else, and no other step of a session changes  *)
(* the priority, except the cancel that sets it back to the entry value.   *)
(***************************************************************************)
PriorityRange == 0..9

C27_PriorityStaysInRange ==
    [][/\ \A i \in 1..Len(todoList') : todoList'[i].Priority \in PriorityRange
       /\ todo'.Priority \in PriorityRange
       /\ (pc = "editItem" /\ pc' = "editItem" /\ CurTodo'.Priority # CurTodo.Priority)
            => /\ last'.op = "Priority" /\ last'.res = "ok"
               /\ CurTodo'.Priority \in {0, 5}
       /\ (pc = "editItem" /\ sel > 0 /\ last'.op = "editItem")
            => todoList'[sel].Priority
                 = (IF last'.res = "cancelled" THEN originalTodo ELSE todoList[sel]).Priority]_vars

\* the Priority edit took 5
C27_Witness ==
    /\ pc = "editItem" /\ last.op = "Priority" /\ last.res = "ok"
    /\ CurTodo.Priority = 5

(***************************************************************************)
(* C28: no step of the edit controller (a field edit, Complete/Restore,    *)
(* Save, Cancel) changes the UID or the Created time of a task, and        *)
(* saveTodos never replaces a CREATED property that the stored record of a *)
(* task already has.                                                       *)
(***************************************************************************)
SameIdentity(a, b) == a.UID = b.UID /\ a.Created = b.Created

\* the records that have a CREATED keep it in every file that is still a
\* calendar after the step
CreatedKept ==
    \A u \in DOMAIN files \cap DOMAIN files' :
      (files[u].kind = "cal" /\ files'[u].kind = "cal")
        => \A i \in 1..Len(files[u].comps) :
             (IsVTodo(files[u].comps[i]) /\ files[u].comps[i].CREATED # Absent)
               => /\ i <= Len(files'[u].comps)
                  /\ files'[u].comps[i].CREATED = files[u].comps[i].CREATED

C28_IdentityAndCreatedKept ==
    [][/\ (pc = "editItem" /\ pc' = "editItem") => SameIdentity(CurTodo', CurTodo)
       /\ (pc = "editItem" /\ last'.op = "editItem" /\ sel > 0)
            => SameIdentity(todoList'[sel], todoList[sel])
       /\ (pc = "editItem" /\ last'.op = "editItem" /\ Len(todoList') > Len(todoList))
            => SameIdentity(todoList'[Len(todoList')], todo)
       /\ CreatedKept]_vars

\* the task whose record has its CREATED in the local form was saved: the
\* record was rewritten (its LAST-MODIFIED is of this run) and the CREATED
\* is the one it had
C28_Witness ==
    /\ last.op = "saveTodos" /\ last.res = "ok"
    /\ 1 \in DOMAIN files /\ files[1].kind = "cal"
    /\ files[1].comps[1].CREATED = LocalForm(StartNow - DayTicks)
    /\ files[1].comps[1].LASTMOD # ZForm(StartNow - DayTicks)

(***************************************************************************)
(* C29: between the load and the final save no file of a task is created   *)
(* or overwritten: what "Save item" commits is in memory only until the    *)
(* top-level prompt is cancelled, and the one change of the directory in   *)
(* the loop is the removal of the file of a task whose deletion was        *)
(* confirmed.  So a fatal launcher error in the loop ends the program with *)
(* the deletions done on disk and every pending edit and add unwritten.    *)
(***************************************************************************)
C29_LoopOnlyRemovesFiles ==
    [][last'.op # "saveTodos"
         => /\ DOMAIN files' \subseteq DOMAIN files
            /\ \A u \in DOMAIN files' : files'[u] = files[u]
            /\ files' # files
                 => /\ last'.op \in {"Delete item", "Delete All Completed"}
                    /\ last'.answer \in {"y", "Y"}
            /\ pc' = "fatal" => files' = files]_vars

\* the launcher failed after a session was saved: the task is Modified in
\* memory and its file is as it was loaded, or there is no file for it yet
C29_Witness ==
    /\ pc = "fatal" /\ last.op = "display"
    /\ \E i \in 1..Len(todoList) :
         /\ todoList[i].Modified
         /\ \/ todoList[i].UID \notin DOMAIN files
            \/ files[todoList[i].UID] \in {d[todoList[i].UID] : d \in {x \in InitDirs :
                                                todoList[i].UID \in DOMAIN x}}

(***************************************************************************)
(* C30: a selection at the active or the completed menu that is not empty  *)
(* and not a control entry opens an edit session only for the task whose   *)
(* rendered line is the selected text; text that is no rendered line opens *)
(* no session and never indexes the collection out of range, the empty     *)
(* collection included.                                                    *)
(***************************************************************************)
SessionOpened == pc = "editItem" /\ last.op \in {"main", "viewCompleted"}

C30_OnlyRenderedLineOpensSession ==
    /\ pc # "panic"
    /\ SessionOpened
         => /\ ~last.chg
            /\ Line(todoList[sel], flags.hideCreatedDate) \in DOMAIN menu.m
            /\ menu.m[Line(todoList[sel], flags.hideCreatedDate)] = sel

(***************************************************************************)
(* C31: cancelling a sub-prompt of an edit session (title, priority, the   *)
(* categories selection, the prompt for a new category, due date, start    *)
(* date, start time, description) leaves every field of the task, and its  *)
(* Modified flag, as it was.                                               *)
(***************************************************************************)
SubPromptCancelled ==
    /\ pc = "editItem"
    /\ last'.op \in {"Title", "Priority", "Categories", "Due date", "Start date",
                     "Start time", "Description"}
    /\ last'.res \in {"cancelled", "cancelled new"}

C31_CancelledSubPromptChangesNothing ==
    [][SubPromptCancelled => todoList' = todoList /\ todo' = todo /\ sel' = sel]_vars

(***************************************************************************)
(* C32: createMenu only reorders the collection: after the call it holds   *)
(* the same task entries (none added, dropped or duplicated) and no field  *)
(* of a task, Modified included, has changed; a task the mode or the       *)
(* threshold filter hides stays in the collection and is written by the    *)
(* save when it is dirty.                                                  *)
(***************************************************************************)
\* a step that renders a menu and leaves the collection to createMenu alone
MenuStep ==
    /\ pc \in {"main", "viewCompleted"}
    /\ last'.op \in {"main", "viewCompleted"}

IsReordering(after, before) ==
    /\ Len(after) = Len(before)
    /\ \E p \in Permutations(1..Len(before)) :
         \A i \in 1..Len(before) : after[i] = before[p[i]]

\* the tasks of a collection that the active menu does not show
Hidden(list, clock) ==
    {t \in Tasks(list) : ~Shown(t, FALSE, flags.threshold, clock)}

C32_CreateMenuOnlyReorders ==
    [][/\ MenuStep => IsReordering(todoList', todoList)
       /\ (last'.op = "saveTodos" /\ last'.res = "ok")
            => \A t \in Hidden(todoList, now') : t.Modified => Holds(files', t)]_vars

\* the open task was completed and saved in this run: the last active menu
\* does not show it, and the final save has written it
C32_Witness ==
    /\ last.op = "saveTodos" /\ last.res = "ok"
    /\ \E i \in 1..Len(todoList) :
         /\ todoList[i].UID = 1 /\ todoList[i].Status = Completed
         /\ Line(todoList[i], flags.hideCreatedDate) \notin DOMAIN menu.m
         /\ files[1].kind = "cal" /\ files[1].comps[1].STATUS = Completed

(***************************************************************************)
(* C33: the comparator createMenu passes to sort.Slice is a strict weak    *)
(* ordering of the tasks: irreflexive, asymmetric and transitive, with a   *)
(* transitive incomparability (neither a before b nor b before a).         *)
(***************************************************************************)
Incomparable(a, b) == ~less(a, b) /\ ~less(b, a)

C33_LessIsStrictWeakOrdering ==
    \A i, j, k \in 1..Len(todoList) :
      LET a == todoList[i]
          b == todoList[j]
          c == todoList[k]
      IN /\ ~less(a, a)
         /\ less(a, b) => ~less(b, a)
         /\ (less(a, b) /\ less(b, c)) => less(a, c)
         /\ (Incomparable(a, b) /\ Incomparable(b, c)) => Incomparable(a, c)

\* createMenu has sorted three tasks that the three rules of the comparator
\* put in a chain: one with a due date, one with a priority, one with none
C33_Witness ==
    /\ last.op \in {"main", "viewCompleted"}
    /\ Len(todoList) = 3
    /\ ~IsZero(todoList[1].DueDate)
    /\ IsZero(todoList[2].DueDate) /\ todoList[2].Priority = 9
    /\ IsZero(todoList[3].DueDate) /\ todoList[3].Priority = 0
    /\ less(todoList[1], todoList[2]) /\ less(todoList[2], todoList[3])
    /\ less(todoList[1], todoList[3])

(***************************************************************************)
(* C34: when saveTodos fails on a dirty task (its file cannot be decoded,  *)
(* cannot be created, or cannot be serialized to), it returns the error at *)
(* once: the dirty tasks before it have been written and are no longer     *)
(* Modified, and the failing task and every dirty task after it are still  *)
(* Modified and their files are not written.                               *)
(***************************************************************************)
SaveFailed == last'.op = "saveTodos" /\ last'.res = "error"

\* the task of a collection with the given UID was dirty
WasDirty(list, uid) == \E i \in 1..Len(list) : list[i].UID = uid /\ list[i].Modified

C34_FailedSaveStopsAtFailingTask ==
    [][SaveFailed
         => /\ pc' = "fatal"
            /\ \E f \in 1..Len(todoList') :
                 /\ todoList'[f].Modified
                 /\ \A i \in 1..(f - 1) :
                      /\ ~todoList'[i].Modified
                      /\ WasDirty(todoList, todoList'[i].UID)
                           => Holds(files', [todoList'[i] EXCEPT !.Modified = TRUE])
                 /\ \A i \in f..Len(todoList') :
                      /\ todoList'[i].Modified = WasDirty(todoList, todoList'[i].UID)
                      /\ todoList'[i].Modified
                           => FileOf(files', todoList'[i].UID)
                                = FileOf(files, todoList'[i].UID)]_vars

====
